---- MODULE Spec2Model ----
(***************************************************************************)
(* Model of the message / transaction / address-lookup-table layer of the  *)
(* solana-sdk repository:                                                  *)
(*   - legacy Message: sanitize, is_signer, is_writable_index              *)
(*       (program/src/message_inner/legacy.rs)                             *)
(*   - VersionedTransaction: try_new, sanitize_signatures_inner,           *)
(*       verify_with_results, verify_and_hash_message                      *)
(*       (transaction/src/versioned/mod.rs)                                *)
(*   - AddressLookupTable: status, is_active, get_active_addresses_len,    *)
(*       lookup_iter, lookup                                               *)
(*       (program/src/address_lookup_table_interface_inner/state.rs)       *)
(* The operations are pure functions of caller-owned values, so every      *)
(* specification draws the inputs in Init and its actions apply one        *)
(* operation and record what it returned.                                  *)
(***************************************************************************)
EXTENDS Integers, Sequences, FiniteSets, TLC

VARIABLES
    message,        \* the legacy Message under inspection
    msg_result,     \* what the last Message operation returned
    keypairs,       \* the signing identities handed to try_new
    tx,             \* the VersionedTransaction at hand (or NoTx)
    tx_result,      \* what the last VersionedTransaction operation returned
    table,          \* the AddressLookupTable (meta + addresses)
    current_slot,   \* the slot lookups are evaluated at
    slot_hashes,    \* the SlotHashes history, newest first (slots only)
    alt_result,     \* what the last AddressLookupTable operation returned
    slot_start,     \* the table as it was when current_slot began
    account,        \* the instructions sysvar account (key + data buffer)
    sysvar_source,  \* the calls the sysvar buffer was built from
    sysvar_result,  \* what the last instructions-sysvar operation returned
    call_list,      \* the call descriptors handed to message compilation
    payer,          \* the fee payer handed to message compilation
    reserved_account_keys,  \* the reserved set handed to is_maybe_writable
    address_loader, \* the SimpleAddressLoader at hand
    lookups,        \* the lookup references handed to load_addresses
    load_result     \* what load_addresses returned

vars == <<message, msg_result, keypairs, tx, tx_result,
          table, current_slot, slot_hashes, alt_result, slot_start,
          account, sysvar_source, sysvar_result,
          call_list, payer, reserved_account_keys,
          address_loader, lookups, load_result>>

msg_vars == <<message, msg_result>>
tx_vars  == <<keypairs, tx, tx_result>>
alt_vars == <<table, current_slot, slot_hashes, alt_result, slot_start>>
sysvar_vars == <<account, sysvar_source, sysvar_result>>
compile_vars == <<call_list, payer, reserved_account_keys>>
loader_vars == <<address_loader, lookups, load_result>>

(***************************************************************************)
(* Bounds of the model.                                                    *)
(***************************************************************************)
SlotBits == 10          \* width of the Slot type in the model
MaxKeys == 2            \* longest account-key table of a message with calls
MaxCallIndexes == 3     \* most indexes (program ids and accounts) in its calls
MaxPlainKeys == 4       \* longest account-key table of a message without calls
NumPubkeys == 3         \* distinct addresses that sign or are signed for
MaxStaticKeys == 2      \* longest static key table of a signed message
MaxSigners == 2         \* most identities handed to try_new
MaxSignatures == 2      \* most signatures on a received transaction
MaxSlot == 3            \* largest slot a table, lookup or history entry names
MaxHistory == 2         \* most entries of the slot-hash history
MaxAddresses == 2       \* most addresses in a lookup table
MaxIndexes == 2         \* most indexes in one lookup

\* sequences over S of length 0..n
SeqUpTo(S, n) == UNION {[1..k -> S] : k \in 0..n}

SatSub(a, b) == IF a >= b THEN a - b ELSE 0

Min(a, b) == IF a <= b THEN a ELSE b

NoResult == [op |-> "none"]

(***************************************************************************)
(* Legacy Message.                                                         *)
(***************************************************************************)
Ok == "Ok"
IndexOutOfBounds == "IndexOutOfBounds"
InvalidValue == "InvalidValue"

\* the body of the loop `for ci in &self.instructions`, from call k on
RECURSIVE sanitize_instructions(_, _, _)
sanitize_instructions(instructions, k, nkeys) ==
    IF k > Len(instructions) THEN Ok
    ELSE LET ci == instructions[k] IN
         IF ci.program_id_index >= nkeys THEN IndexOutOfBounds
         ELSE IF ci.program_id_index = 0 THEN IndexOutOfBounds
         ELSE IF \E j \in 1..Len(ci.accounts) : ci.accounts[j] >= nkeys
              THEN IndexOutOfBounds
         ELSE sanitize_instructions(instructions, k + 1, nkeys)

\* a plausible slip: the payer check `program_id_index == 0` left out
sanitize_no_payer_check(m) ==
    IF m.header.num_required_signatures + m.header.num_readonly_unsigned_accounts
         > Len(m.account_keys)
    THEN IndexOutOfBounds
    ELSE IF m.header.num_readonly_signed_accounts >= m.header.num_required_signatures
    THEN IndexOutOfBounds
    ELSE IF \E k \in 1..Len(m.instructions) :
              \/ m.instructions[k].program_id_index >= Len(m.account_keys)
              \/ \E j \in 1..Len(m.instructions[k].accounts) :
                    m.instructions[k].accounts[j] >= Len(m.account_keys)
    THEN IndexOutOfBounds
    ELSE Ok

\* impl Sanitize for Message. The trailing account_keys / recent_blockhash /
\* instructions sanitize calls are the trait's default no-op and return Ok.
sanitize(m) ==
    IF m.header.num_required_signatures + m.header.num_readonly_unsigned_accounts
         > Len(m.account_keys)
    THEN IndexOutOfBounds
    ELSE IF m.header.num_readonly_signed_accounts >= m.header.num_required_signatures
    THEN IndexOutOfBounds
    ELSE sanitize_instructions(m.instructions, 1, Len(m.account_keys))

is_signer(m, i) == i < m.header.num_required_signatures

\* a plausible slip: the readonly-unsigned tail not subtracted
is_writable_index_no_tail(m, i) ==
    \/ i < SatSub(m.header.num_required_signatures,
                  m.header.num_readonly_signed_accounts)
    \/ /\ i >= m.header.num_required_signatures
       /\ i < Len(m.account_keys)

is_writable_index(m, i) ==
    \/ i < SatSub(m.header.num_required_signatures,
                  m.header.num_readonly_signed_accounts)
    \/ /\ i >= m.header.num_required_signatures
       /\ i < SatSub(Len(m.account_keys),
                     m.header.num_readonly_unsigned_accounts)

\* the inputs: every header, key-table length and list of compiled calls
\* within the bounds; indexes run one past the longest table so that an
\* out-of-range index exists for every table
MessageHeaders ==
    [num_required_signatures : 0..MaxKeys,
     num_readonly_signed_accounts : 0..MaxKeys,
     num_readonly_unsigned_accounts : 0..MaxKeys]

\* the compiled calls that hold at most n indexes
CompiledInstructions(n) ==
    [program_id_index : 0..MaxKeys,
     accounts : SeqUpTo(0..MaxKeys, n - 1)]

\* the lists of compiled calls that hold at most n indexes in total
RECURSIVE InstructionLists(_)
InstructionLists(n) ==
    IF n = 0 THEN {<<>>}
    ELSE {<<>>} \cup
         UNION {{<<ci>> \o rest :
                    rest \in InstructionLists(n - 1 - Len(ci.accounts))} :
                ci \in CompiledInstructions(n)}

\* the key at table position i (1-based) of the inspected message
KeyAt(i) == i

Messages ==
    [header : MessageHeaders,
     account_keys : {[i \in 1..n |-> KeyAt(i)] : n \in 0..MaxKeys},
     recent_blockhash : {0},
     instructions : InstructionLists(MaxCallIndexes)]

\* messages that carry no compiled call, over longer key tables
PlainMessages ==
    [header : [num_required_signatures : 0..MaxPlainKeys,
               num_readonly_signed_accounts : 0..MaxPlainKeys,
               num_readonly_unsigned_accounts : 0..MaxPlainKeys],
     account_keys : {[i \in 1..n |-> KeyAt(i)] : n \in 0..MaxPlainKeys},
     recent_blockhash : {0},
     instructions : {<<>>}]

EmptyMessage ==
    [header |-> [num_required_signatures |-> 0,
                 num_readonly_signed_accounts |-> 0,
                 num_readonly_unsigned_accounts |-> 0],
     account_keys |-> <<>>, recent_blockhash |-> 0, instructions |-> <<>>]

MsgIdle == message = EmptyMessage /\ msg_result = NoResult
TxIdle == keypairs = <<>> /\ tx = [op |-> "none"] /\ tx_result = NoResult
AltIdle ==
    /\ table = [op |-> "none"]
    /\ current_slot = 0
    /\ slot_hashes = <<>>
    /\ alt_result = NoResult
    /\ slot_start = [op |-> "none"]
SysvarIdle ==
    /\ account = [op |-> "none"]
    /\ sysvar_source = <<>>
    /\ sysvar_result = NoResult
CompileIdle ==
    /\ call_list = <<>>
    /\ payer = 0
    /\ reserved_account_keys = [op |-> "none"]
LoaderIdle ==
    /\ address_loader = [op |-> "none"]
    /\ lookups = <<>>
    /\ load_result = NoResult

InitMsg ==
    /\ message \in Messages \cup PlainMessages
    /\ msg_result = NoResult
    /\ TxIdle
    /\ AltIdle
    /\ SysvarIdle
    /\ CompileIdle
    /\ LoaderIdle

\* message.sanitize()
Sanitize ==
    /\ msg_result' = [op |-> "sanitize", value |-> sanitize(message)]
    /\ UNCHANGED <<message, tx_vars, alt_vars, sysvar_vars, compile_vars, loader_vars>>

\* is_signer(i) and is_writable_index(i) for every index of the key table
Classify ==
    /\ msg_result' =
         [op |-> "classify",
          signer |-> [i \in 1..Len(message.account_keys) |->
                          is_signer(message, i - 1)],
          writable |-> [i \in 1..Len(message.account_keys) |->
                          is_writable_index(message, i - 1)]]
    /\ UNCHANGED <<message, tx_vars, alt_vars, sysvar_vars, compile_vars, loader_vars>>

NextMsg == Sanitize \/ Classify

SpecMsg == InitMsg /\ [][NextMsg]_vars

(***************************************************************************)
(* C1: Message::sanitize returns IndexOutOfBounds exactly for the messages *)
(* in which (a) num_required_signatures + num_readonly_unsigned_accounts   *)
(* exceeds the key-table length, or (b) num_readonly_signed_accounts >=    *)
(* num_required_signatures, or (c) some call has program_id_index 0 or     *)
(* beyond the table, or (d) some call has an account index beyond the      *)
(* table; it returns Ok for every other message; and the step that runs it *)
(* leaves the message as it was.                                           *)
(***************************************************************************)
C1_a(m) ==
    m.header.num_required_signatures + m.header.num_readonly_unsigned_accounts
        > Len(m.account_keys)
C1_b(m) ==
    m.header.num_readonly_signed_accounts >= m.header.num_required_signatures
C1_c(m) ==
    \E k \in DOMAIN m.instructions :
        \/ m.instructions[k].program_id_index = 0
        \/ m.instructions[k].program_id_index >= Len(m.account_keys)
C1_d(m) ==
    \E k \in DOMAIN m.instructions :
        \E j \in DOMAIN m.instructions[k].accounts :
            m.instructions[k].accounts[j] >= Len(m.account_keys)

C1_SanitizeRejectsExactly ==
    /\ [](msg_result.op = "sanitize" =>
            msg_result.value =
               IF C1_a(message) \/ C1_b(message) \/ C1_c(message) \/ C1_d(message)
               THEN IndexOutOfBounds ELSE Ok)
    /\ [][msg_result'.op = "sanitize" => message' = message]_vars

\* a message rejected only because its second call names the payer (index 0)
\* as the program
C1_Witness ==
    /\ msg_result.op = "sanitize"
    /\ msg_result.value = IndexOutOfBounds
    /\ ~C1_a(message) /\ ~C1_b(message) /\ ~C1_d(message)
    /\ Len(message.instructions) = 2
    /\ message.instructions[1].program_id_index = 1
    /\ message.instructions[2].program_id_index = 0

(***************************************************************************)
(* C2: for a header with num_readonly_signed < num_required_signatures and *)
(* num_required_signatures + num_readonly_unsigned <= len, is_signer and   *)
(* is_writable_index put every index of [0, len) in exactly one of four    *)
(* contiguous regions, in this order: writable signers [0, nrs - nros),    *)
(* readonly signers [nrs - nros, nrs), writable non-signers                *)
(* [nrs, len - nru), readonly non-signers [len - nru, len).                *)
(***************************************************************************)
C2_ValidHeader(m) ==
    /\ m.header.num_readonly_signed_accounts < m.header.num_required_signatures
    /\ m.header.num_required_signatures + m.header.num_readonly_unsigned_accounts
          <= Len(m.account_keys)

\* the region (1..4) that the bounds of the claim assign to index i
C2_Region(m, i) ==
    LET nrs == m.header.num_required_signatures
        nros == m.header.num_readonly_signed_accounts
        nru == m.header.num_readonly_unsigned_accounts
        len == Len(m.account_keys)
    IN  {r \in 1..4 :
            \/ r = 1 /\ 0 <= i /\ i < nrs - nros
            \/ r = 2 /\ nrs - nros <= i /\ i < nrs
            \/ r = 3 /\ nrs <= i /\ i < len - nru
            \/ r = 4 /\ len - nru <= i /\ i < len}

C2_FourRegions ==
    (msg_result.op = "classify" /\ C2_ValidHeader(message)) =>
        \A i \in 0..(Len(message.account_keys) - 1) :
            C2_Region(message, i) =
                {IF msg_result.signer[i + 1]
                 THEN (IF msg_result.writable[i + 1] THEN 1 ELSE 2)
                 ELSE (IF msg_result.writable[i + 1] THEN 3 ELSE 4)}

\* a classified table of four keys with one key in each region
C2_Witness ==
    /\ msg_result.op = "classify"
    /\ C2_ValidHeader(message)
    /\ Len(message.account_keys) = 4
    /\ msg_result.signer = <<TRUE, TRUE, FALSE, FALSE>>
    /\ msg_result.writable = <<TRUE, FALSE, TRUE, FALSE>>

(***************************************************************************)
(* VersionedTransaction.                                                   *)
(* The operations read the message only through header(),                  *)
(* static_account_keys() and serialize(), which both variants of           *)
(* VersionedMessage answer from the same fields, so the message is the     *)
(* record used above.                                                      *)
(***************************************************************************)
Pubkeys == 1..NumPubkeys

NoTx == [op |-> "none"]

\* the serialized message: header bytes, then the length-prefixed key table,
\* the blockhash and the length-prefixed compiled calls
RECURSIVE serialize_instructions(_, _)
serialize_instructions(instructions, k) ==
    IF k > Len(instructions) THEN <<>>
    ELSE <<instructions[k].program_id_index, Len(instructions[k].accounts)>>
         \o instructions[k].accounts
         \o serialize_instructions(instructions, k + 1)

serialize(m) ==
    <<m.header.num_required_signatures,
      m.header.num_readonly_signed_accounts,
      m.header.num_readonly_unsigned_accounts,
      Len(m.account_keys)>>
    \o m.account_keys
    \o <<m.recent_blockhash, Len(m.instructions)>>
    \o serialize_instructions(m.instructions, 1)

hash_raw_message(message_bytes) == [hash_of |-> message_bytes]

\* Ed25519, idealised: a signature names the key that made it and the bytes
\* it was made over, and verifies for that key and those bytes only
sign_message(secret, message_bytes) ==
    [signer |-> secret, bytes |-> message_bytes]

signature_verify(signature, pubkey, message_bytes) ==
    signature.signer = pubkey /\ signature.bytes = message_bytes

\* Signature::default(): verifies for no key
DefaultSignature == [signer |-> 0, bytes |-> <<>>]

\* the identities: a Keypair (its address stands for its secret too) and a
\* Presigner holding an address and a signature made elsewhere
Keypair(k) == [kind |-> "Keypair", pubkey |-> k, signature |-> DefaultSignature]
Presigner(k, sig) == [kind |-> "Presigner", pubkey |-> k, signature |-> sig]

\* Signer::try_pubkey for every identity (never fails for these two kinds)
try_pubkeys(kps) == [j \in 1..Len(kps) |-> kps[j].pubkey]

\* Signer::try_sign_message of one identity
signer_try_sign_message(id, message_bytes) ==
    IF id.kind = "Keypair"
    THEN [ok |-> TRUE, value |-> sign_message(id.pubkey, message_bytes)]
    ELSE IF signature_verify(id.signature, id.pubkey, message_bytes)
         THEN [ok |-> TRUE, value |-> id.signature]
         ELSE [ok |-> FALSE, value |-> "PresignerVerificationFailure"]

\* Signers::try_sign_message: every identity signs, the first failure wins
try_sign_message(kps, message_bytes) ==
    LET each == [j \in 1..Len(kps) |->
                    signer_try_sign_message(kps[j], message_bytes)]
        failed == {j \in 1..Len(kps) : ~each[j].ok}
    IN  IF failed # {}
        THEN [ok |-> FALSE,
              value |-> each[CHOOSE j \in failed : \A h \in failed : j <= h].value]
        ELSE [ok |-> TRUE, value |-> [j \in 1..Len(kps) |-> each[j].value]]

\* Iterator::position: the first (1-based) place of x in seq, 0 for None
position(seq, x) ==
    IF \E j \in 1..Len(seq) : seq[j] = x
    THEN CHOOSE j \in 1..Len(seq) :
            seq[j] = x /\ \A h \in 1..(j - 1) : seq[h] # x
    ELSE 0

TxErr(e) == [ok |-> FALSE, value |-> e]
TxOk(v) == [ok |-> TRUE, value |-> v]

\* a plausible slip: the signatures kept in the order the identities came in
try_new_supplied_order(m, kps) ==
    LET nrs == m.header.num_required_signatures
        static_account_keys == m.account_keys
    IN
    IF Len(static_account_keys) < nrs
    THEN TxErr("InvalidInput: invalid message")
    ELSE
    LET signer_keys == try_pubkeys(kps)
        expected_signer_keys == SubSeq(static_account_keys, 1, nrs)
    IN
    IF Len(signer_keys) > Len(expected_signer_keys) THEN TxErr("TooManySigners")
    ELSE IF Len(signer_keys) < Len(expected_signer_keys) THEN TxErr("NotEnoughSigners")
    ELSE IF \E i \in 1..nrs : position(signer_keys, expected_signer_keys[i]) = 0
    THEN TxErr("KeypairPubkeyMismatch")
    ELSE
    LET unordered_signatures == try_sign_message(kps, serialize(m)) IN
    IF ~unordered_signatures.ok THEN TxErr(unordered_signatures.value)
    ELSE TxOk([signatures |-> unordered_signatures.value, message |-> m])

\* a plausible slip: the signer count compared before the message is checked
try_new_count_first(m, kps) ==
    LET nrs == m.header.num_required_signatures
        static_account_keys == m.account_keys
        signer_keys == try_pubkeys(kps)
    IN
    IF Len(signer_keys) > nrs THEN TxErr("TooManySigners")
    ELSE IF Len(signer_keys) < nrs THEN TxErr("NotEnoughSigners")
    ELSE IF Len(static_account_keys) < nrs
    THEN TxErr("InvalidInput: invalid message")
    ELSE
    LET expected_signer_keys == SubSeq(static_account_keys, 1, nrs) IN
    IF \E i \in 1..nrs : position(signer_keys, expected_signer_keys[i]) = 0
    THEN TxErr("KeypairPubkeyMismatch")
    ELSE
    LET signature_indexes ==
            [i \in 1..nrs |-> position(signer_keys, expected_signer_keys[i])]
        unordered_signatures == try_sign_message(kps, serialize(m))
    IN
    IF ~unordered_signatures.ok THEN TxErr(unordered_signatures.value)
    ELSE TxOk([signatures |->
                  [i \in 1..nrs |-> unordered_signatures.value[signature_indexes[i]]],
               message |-> m])

\* VersionedTransaction::try_new
try_new(m, kps) ==
    LET nrs == m.header.num_required_signatures
        static_account_keys == m.account_keys
    IN
    IF Len(static_account_keys) < nrs
    THEN TxErr("InvalidInput: invalid message")
    ELSE
    LET signer_keys == try_pubkeys(kps)
        expected_signer_keys == SubSeq(static_account_keys, 1, nrs)
    IN
    IF Len(signer_keys) > Len(expected_signer_keys) THEN TxErr("TooManySigners")
    ELSE IF Len(signer_keys) < Len(expected_signer_keys) THEN TxErr("NotEnoughSigners")
    ELSE IF \E i \in 1..nrs : position(signer_keys, expected_signer_keys[i]) = 0
    THEN TxErr("KeypairPubkeyMismatch")
    ELSE
    LET signature_indexes ==
            [i \in 1..nrs |-> position(signer_keys, expected_signer_keys[i])]
        unordered_signatures == try_sign_message(kps, serialize(m))
    IN
    IF ~unordered_signatures.ok THEN TxErr(unordered_signatures.value)
    ELSE IF \E i \in 1..nrs :
               signature_indexes[i] > Len(unordered_signatures.value)
    THEN TxErr("InvalidInput: invalid keypairs")
    ELSE TxOk([signatures |->
                  [i \in 1..nrs |-> unordered_signatures.value[signature_indexes[i]]],
               message |-> m])

\* a plausible slip: more signatures than required let through
sanitize_signatures_inner_at_least(num_required_signatures, num_static_account_keys, num_signatures) ==
    IF num_required_signatures > num_signatures THEN IndexOutOfBounds
    ELSE IF num_signatures > num_static_account_keys THEN IndexOutOfBounds
    ELSE Ok

\* VersionedTransaction::sanitize_signatures_inner
sanitize_signatures_inner(num_required_signatures, num_static_account_keys, num_signatures) ==
    IF num_required_signatures > num_signatures THEN IndexOutOfBounds
    ELSE IF num_required_signatures < num_signatures THEN InvalidValue
    ELSE IF num_signatures > num_static_account_keys THEN IndexOutOfBounds
    ELSE Ok

\* a plausible slip: a signature accepted when it verifies for any static key
verify_with_results_any_key(t, message_bytes) ==
    [i \in 1..Min(Len(t.signatures), Len(t.message.account_keys)) |->
        \E j \in 1..Len(t.message.account_keys) :
            signature_verify(t.signatures[i], t.message.account_keys[j],
                             message_bytes)]

\* VersionedTransaction::_verify_with_results: zip(signatures, static keys)
verify_with_results(t, message_bytes) ==
    [i \in 1..Min(Len(t.signatures), Len(t.message.account_keys)) |->
        signature_verify(t.signatures[i], t.message.account_keys[i],
                         message_bytes)]

\* a plausible slip: `any` for `all`, one verifying signature is enough
verify_and_hash_message_any_result(t) ==
    LET message_bytes == serialize(t.message)
        results == verify_with_results(t, message_bytes)
    IN  IF ~(\E i \in 1..Len(results) : results[i])
        THEN TxErr("SignatureFailure")
        ELSE TxOk(hash_raw_message(message_bytes))

\* VersionedTransaction::verify_and_hash_message
verify_and_hash_message(t) ==
    LET message_bytes == serialize(t.message)
        results == verify_with_results(t, message_bytes)
    IN  IF ~(\A i \in 1..Len(results) : results[i])
        THEN TxErr("SignatureFailure")
        ELSE TxOk(hash_raw_message(message_bytes))

\* the messages that are signed: every required-signature count up to one
\* past the longest key table, every key table, two blockhashes
TxMessages ==
    [header : [num_required_signatures : 0..(MaxStaticKeys + 1),
               num_readonly_signed_accounts : {0},
               num_readonly_unsigned_accounts : {0}],
     account_keys : SeqUpTo(Pubkeys, MaxStaticKeys),
     recent_blockhash : {0, 1},
     instructions : {<<>>}]

\* the same message over the other blockhash
OtherMessage(m) == [m EXCEPT !.recent_blockhash = 1 - @]

\* a Keypair per address, and per address a Presigner whose signature was
\* made by that address over this message or over the other one
Identities(m) ==
    {Keypair(k) : k \in Pubkeys}
    \cup {Presigner(k, sign_message(k, serialize(mm))) :
            k \in Pubkeys, mm \in {m, OtherMessage(m)}}

\* the signatures a received transaction may carry
WireSignatures(m) ==
    {sign_message(k, serialize(mm)) : k \in Pubkeys, mm \in {m, OtherMessage(m)}}
    \cup {DefaultSignature}

InitSign ==
    /\ message \in TxMessages
    /\ msg_result = NoResult
    /\ keypairs \in SeqUpTo(Identities(message), MaxSigners)
    /\ tx = NoTx
    /\ tx_result = NoResult
    /\ AltIdle
    /\ SysvarIdle
    /\ CompileIdle
    /\ LoaderIdle

InitWire ==
    /\ message \in TxMessages
    /\ msg_result = NoResult
    /\ keypairs = <<>>
    /\ tx \in [signatures : SeqUpTo(WireSignatures(message), MaxSignatures),
               message : {message}]
    /\ tx_result = NoResult
    /\ AltIdle
    /\ SysvarIdle
    /\ CompileIdle
    /\ LoaderIdle

\* VersionedTransaction::try_new(message, keypairs)
TryNew ==
    /\ tx = NoTx
    /\ LET r == try_new(message, keypairs) IN
        /\ tx' = IF r.ok THEN r.value ELSE NoTx
        /\ tx_result' = [op |-> "try_new", ok |-> r.ok,
                         err |-> IF r.ok THEN "" ELSE r.value]
    /\ UNCHANGED <<message, msg_result, keypairs, alt_vars, sysvar_vars, compile_vars, loader_vars>>

\* tx.sanitize_signatures()
SanitizeSignatures ==
    /\ tx # NoTx
    /\ tx_result' =
         [op |-> "sanitize_signatures",
          required |-> tx.message.header.num_required_signatures,
          static_len |-> Len(tx.message.account_keys),
          provided |-> Len(tx.signatures),
          value |-> sanitize_signatures_inner(
                       tx.message.header.num_required_signatures,
                       Len(tx.message.account_keys),
                       Len(tx.signatures))]
    /\ UNCHANGED <<message, msg_result, keypairs, tx, alt_vars, sysvar_vars, compile_vars, loader_vars>>

\* tx.verify_with_results()
VerifyWithResults ==
    /\ tx # NoTx
    /\ tx_result' = [op |-> "verify_with_results",
                     value |-> verify_with_results(tx, serialize(tx.message))]
    /\ UNCHANGED <<message, msg_result, keypairs, tx, alt_vars, sysvar_vars, compile_vars, loader_vars>>

\* tx.verify_and_hash_message()
VerifyAndHashMessage ==
    /\ tx # NoTx
    /\ LET r == verify_and_hash_message(tx) IN
         tx_result' = [op |-> "verify_and_hash_message", ok |-> r.ok,
                       value |-> r.value]
    /\ UNCHANGED <<message, msg_result, keypairs, tx, alt_vars, sysvar_vars, compile_vars, loader_vars>>

NextSign == TryNew \/ SanitizeSignatures \/ VerifyWithResults \/ VerifyAndHashMessage

NextWire == SanitizeSignatures \/ VerifyWithResults \/ VerifyAndHashMessage

\* signing a message and using the signed transaction
SpecSign == InitSign /\ [][NextSign]_vars

\* a transaction received with whatever signatures it carries
SpecWire == InitWire /\ [][NextWire]_vars

(***************************************************************************)
(* C3: whenever try_new succeeds, the transaction holds the given message  *)
(* unchanged and exactly num_required_signatures signatures; the signature *)
(* at index i is the one produced by a supplied identity whose address is  *)
(* static key i, in whatever order the identities were supplied; and so    *)
(* verify_with_results on it is num_required_signatures times true.        *)
(***************************************************************************)
\* what an identity hands out when asked to sign message_bytes
C3_Produced(id, message_bytes) ==
    IF id.kind = "Keypair"
    THEN [signer |-> id.pubkey, bytes |-> message_bytes]
    ELSE id.signature

C3_SignedInSlotOrder ==
    tx # NoTx =>
        LET nrs == message.header.num_required_signatures IN
        /\ tx.message = message
        /\ Len(tx.signatures) = nrs
        /\ \A i \in 1..nrs :
              /\ \E j \in 1..Len(keypairs) :
                    /\ keypairs[j].pubkey = message.account_keys[i]
                    /\ tx.signatures[i] = C3_Produced(keypairs[j], serialize(message))
              /\ tx.signatures[i].signer = message.account_keys[i]
              /\ tx.signatures[i].bytes = serialize(message)
        /\ tx_result.op = "verify_with_results" =>
              tx_result.value = [i \in 1..nrs |-> TRUE]

\* required signers [A, B] with A # B, identities supplied as [B, A], the
\* transaction built and verified
C3_Witness ==
    /\ tx # NoTx
    /\ message.header.num_required_signatures = 2
    /\ message.account_keys[1] # message.account_keys[2]
    /\ Len(keypairs) = 2
    /\ keypairs[1].pubkey = message.account_keys[2]
    /\ keypairs[2].pubkey = message.account_keys[1]
    /\ tx_result.op = "verify_with_results"
    /\ tx_result.value = <<TRUE, TRUE>>

(***************************************************************************)
(* C4: try_new returns no transaction when it fails, and it fails, checked *)
(* in this order, with invalid-input when the message has fewer static     *)
(* keys than num_required_signatures, with TooManySigners / NotEnough-     *)
(* Signers when more / fewer identities than num_required_signatures are   *)
(* supplied, and with KeypairPubkeyMismatch when the counts are equal but  *)
(* some expected signer address is the address of no supplied identity.    *)
(***************************************************************************)
C4_Unmatched ==
    \E i \in 1..message.header.num_required_signatures :
        \A j \in 1..Len(keypairs) :
            keypairs[j].pubkey # message.account_keys[i]

C4_FailuresInOrder ==
    tx_result.op = "try_new" =>
        LET nrs == message.header.num_required_signatures
            nkeys == Len(message.account_keys)
        IN
        /\ ~tx_result.ok => tx = NoTx
        /\ nkeys < nrs =>
              ~tx_result.ok /\ tx_result.err = "InvalidInput: invalid message"
        /\ (nkeys >= nrs /\ Len(keypairs) > nrs) =>
              ~tx_result.ok /\ tx_result.err = "TooManySigners"
        /\ (nkeys >= nrs /\ Len(keypairs) < nrs) =>
              ~tx_result.ok /\ tx_result.err = "NotEnoughSigners"
        /\ (nkeys >= nrs /\ Len(keypairs) = nrs /\ C4_Unmatched) =>
              ~tx_result.ok /\ tx_result.err = "KeypairPubkeyMismatch"

\* one identity supplied twice in place of two distinct signers
C4_Witness ==
    /\ tx_result.op = "try_new"
    /\ tx = NoTx
    /\ tx_result.err = "KeypairPubkeyMismatch"
    /\ message.header.num_required_signatures = 2
    /\ Len(message.account_keys) = 2
    /\ message.account_keys[1] # message.account_keys[2]
    /\ Len(keypairs) = 2
    /\ keypairs[1] = keypairs[2]
    /\ keypairs[1].pubkey = message.account_keys[1]

(***************************************************************************)
(* C5: sanitize_signatures_inner(required, static_len, provided) returns   *)
(* Ok if and only if provided = required and provided <= static_len; it    *)
(* returns IndexOutOfBounds when required > provided, InvalidValue when    *)
(* required < provided, and IndexOutOfBounds when required = provided but  *)
(* provided > static_len.                                                  *)
(***************************************************************************)
C5_ExactSignatureCount ==
    tx_result.op = "sanitize_signatures" =>
        LET required == tx_result.required
            static_len == tx_result.static_len
            provided == tx_result.provided
        IN
        /\ required = tx.message.header.num_required_signatures
        /\ static_len = Len(tx.message.account_keys)
        /\ provided = Len(tx.signatures)
        /\ (tx_result.value = Ok) <=>
              (provided = required /\ provided <= static_len)
        /\ required > provided => tx_result.value = IndexOutOfBounds
        /\ required < provided => tx_result.value = InvalidValue
        /\ (required = provided /\ provided > static_len) =>
              tx_result.value = IndexOutOfBounds

\* more signatures than required: (1, 1, 2) is InvalidValue
C5_Witness ==
    /\ tx_result.op = "sanitize_signatures"
    /\ tx_result.required = 1
    /\ tx_result.static_len = 1
    /\ tx_result.provided = 2
    /\ tx_result.value = InvalidValue

(***************************************************************************)
(* C6: verify_with_results holds, at each index i, whether signature i was *)
(* made by static key i over the serialized message (the key of the same   *)
(* index, never another one); verify_and_hash_message returns the hash of  *)
(* the serialized message when each of these is true, and SignatureFailure *)
(* when one of them is false.                                              *)
(***************************************************************************)
C6_Pairs == 1..Min(Len(tx.signatures), Len(tx.message.account_keys))

C6_Good(i) ==
    /\ tx.signatures[i].signer = tx.message.account_keys[i]
    /\ tx.signatures[i].bytes = serialize(tx.message)

C6_VerifyByIndex ==
    /\ tx_result.op = "verify_with_results" =>
          /\ DOMAIN tx_result.value = C6_Pairs
          /\ \A i \in C6_Pairs : tx_result.value[i] = C6_Good(i)
    /\ tx_result.op = "verify_and_hash_message" =>
          IF \A i \in C6_Pairs : C6_Good(i)
          THEN tx_result.ok /\ tx_result.value = [hash_of |-> serialize(tx.message)]
          ELSE ~tx_result.ok /\ tx_result.value = "SignatureFailure"

\* the second signature was made by the first static key: good for a key of
\* the table, but not for the key of its own index
C6_Witness ==
    /\ tx_result.op = "verify_with_results"
    /\ Len(tx.message.account_keys) = 2
    /\ tx.message.account_keys[1] # tx.message.account_keys[2]
    /\ Len(tx.signatures) = 2
    /\ tx.signatures[2] = tx.signatures[1]
    /\ tx_result.value = <<TRUE, FALSE>>

(***************************************************************************)
(* AddressLookupTable.                                                     *)
(* Slot is an unsigned integer type; the model keeps it SlotBits wide, so  *)
(* Slot_MAX plays u64::MAX.  The tables, slots and histories a lookup is   *)
(* asked about are drawn from the slots 0..MaxSlot, and a table that was   *)
(* never deactivated carries Slot_MAX.                                     *)
(***************************************************************************)
Slot_MAX == 2^SlotBits - 1
Slots == 0..MaxSlot
DeactivationSlots == Slots \cup {Slot_MAX}

\* capacity of the slot-hash history
MAX_ENTRIES == 512

NoPosition == -1

\* <[T]>::binary_search_by over the 0-based range [lo, hi) of the history,
\* with the comparator `slot.cmp(probe)` of a list sorted newest first
RECURSIVE binary_search_by(_, _, _, _)
binary_search_by(history, slot, lo, hi) ==
    IF lo >= hi THEN NoPosition
    ELSE LET mid == lo + ((hi - lo) \div 2)
             probe == history[mid + 1]
         IN  IF slot < probe THEN binary_search_by(history, slot, mid + 1, hi)
             ELSE IF slot > probe THEN binary_search_by(history, slot, lo, mid)
             ELSE mid

\* SlotHashes::position: 0-based position of the slot, NoPosition for None
slot_hashes_position(history, slot) ==
    binary_search_by(history, slot, 0, Len(history))

Activated == [kind |-> "Activated", remaining_blocks |-> 0]
Deactivating(n) == [kind |-> "Deactivating", remaining_blocks |-> n]
Deactivated == [kind |-> "Deactivated", remaining_blocks |-> 0]

\* a plausible slip: the position counted from one
status_one_based(meta, slot, history) ==
    IF meta.deactivation_slot = Slot_MAX THEN Activated
    ELSE IF meta.deactivation_slot = slot THEN Deactivating(MAX_ENTRIES + 1)
    ELSE IF slot_hashes_position(history, meta.deactivation_slot) # NoPosition
    THEN Deactivating(SatSub(MAX_ENTRIES,
            slot_hashes_position(history, meta.deactivation_slot) + 1))
    ELSE Deactivated

\* a plausible slip: the block of the deactivation itself not told apart
status_without_same_slot_case(meta, slot, history) ==
    IF meta.deactivation_slot = Slot_MAX THEN Activated
    ELSE IF slot_hashes_position(history, meta.deactivation_slot) # NoPosition
    THEN Deactivating(SatSub(MAX_ENTRIES,
            slot_hashes_position(history, meta.deactivation_slot)))
    ELSE Deactivated

\* LookupTableMeta::status
status(meta, slot, history) ==
    IF meta.deactivation_slot = Slot_MAX THEN Activated
    ELSE IF meta.deactivation_slot = slot THEN Deactivating(MAX_ENTRIES + 1)
    ELSE IF slot_hashes_position(history, meta.deactivation_slot) # NoPosition
    THEN Deactivating(SatSub(MAX_ENTRIES,
            slot_hashes_position(history, meta.deactivation_slot)))
    ELSE Deactivated

\* a plausible slip: a table in its cool-down no longer counted as active
is_active_activated_only(meta, slot, history) ==
    status(meta, slot, history).kind = "Activated"

\* LookupTableMeta::is_active
is_active(meta, slot, history) ==
    LET st == status(meta, slot, history) IN
    IF st.kind = "Activated" THEN TRUE
    ELSE IF st.kind = "Deactivating" THEN TRUE
    ELSE FALSE

AltErr(e) == [ok |-> FALSE, value |-> e]
AltOk(v) == [ok |-> TRUE, value |-> v]
AltPanic == [ok |-> FALSE, value |-> "panic"]

\* a plausible slip: `>=` for `>`, same-slot extensions already visible
get_active_addresses_len_same_slot(t, slot, history) ==
    IF ~is_active(t.meta, slot, history)
    THEN AltErr("LookupTableAccountNotFound")
    ELSE IF slot >= t.meta.last_extended_slot
         THEN AltOk(Len(t.addresses))
         ELSE AltOk(t.meta.last_extended_slot_start_index)

\* a plausible slip: the start index of the last extension is ignored
get_active_addresses_len_whole_table(t, slot, history) ==
    IF ~is_active(t.meta, slot, history)
    THEN AltErr("LookupTableAccountNotFound")
    ELSE AltOk(Len(t.addresses))

\* AddressLookupTable::get_active_addresses_len
get_active_addresses_len(t, slot, history) ==
    IF ~is_active(t.meta, slot, history)
    THEN AltErr("LookupTableAccountNotFound")
    ELSE IF slot > t.meta.last_extended_slot
         THEN AltOk(Len(t.addresses))
         ELSE AltOk(t.meta.last_extended_slot_start_index)

\* Option<Pubkey>::None
NoAddress == 0

\* AddressLookupTable::lookup_iter: one Option per index; slicing
\* addresses[0..active_addresses_len] aborts when the length is too large
lookup_iter(t, slot, indexes, history) ==
    LET active_addresses_len == get_active_addresses_len(t, slot, history) IN
    IF ~active_addresses_len.ok THEN active_addresses_len
    ELSE IF active_addresses_len.value > Len(t.addresses) THEN AltPanic
    ELSE LET active_addresses == SubSeq(t.addresses, 1, active_addresses_len.value)
         IN  AltOk([k \in 1..Len(indexes) |->
                      IF indexes[k] < Len(active_addresses)
                      THEN active_addresses[indexes[k] + 1]
                      ELSE NoAddress])

\* a plausible slip: the indexes that do not resolve are dropped
lookup_skip_unresolved(t, slot, indexes, history) ==
    LET it == lookup_iter(t, slot, indexes, history) IN
    IF ~it.ok THEN it
    ELSE AltOk(SelectSeq(it.value, LAMBDA a : a # NoAddress))

\* AddressLookupTable::lookup: collect::<Option<_>>() is None as soon as one
\* item is None
lookup(t, slot, indexes, history) ==
    LET it == lookup_iter(t, slot, indexes, history) IN
    IF ~it.ok THEN it
    ELSE IF \E k \in 1..Len(it.value) : it.value[k] = NoAddress
         THEN AltErr("InvalidLookupIndex")
         ELSE AltOk(it.value)

\* the address stored at (1-based) place i of a table
AddressAt(i) == 10 + i

\* the tables: any deactivation slot and last-extended slot; the start index
\* of the last extension is a length the table had, so at most its length
Tables ==
    UNION {
        {[meta |-> [deactivation_slot |-> d,
                    last_extended_slot |-> e,
                    last_extended_slot_start_index |-> si],
          addresses |-> [i \in 1..n |-> AddressAt(i)]] :
            d \in DeactivationSlots, e \in Slots, si \in 0..n} :
        n \in 0..MaxAddresses}

\* the histories: slots strictly descending, newest first
Histories ==
    {h \in SeqUpTo(Slots, MaxHistory) :
        \A i \in 1..(Len(h) - 1) : h[i] > h[i + 1]}

\* the indexes of one lookup; MaxAddresses is past the end of every table
IndexLists == SeqUpTo(0..MaxAddresses, MaxIndexes)

InitAlt ==
    /\ MsgIdle
    /\ TxIdle
    /\ table \in Tables
    /\ current_slot \in Slots
    /\ slot_hashes \in Histories
    /\ alt_result = NoResult
    /\ slot_start = [op |-> "none"]
    /\ SysvarIdle
    /\ CompileIdle
    /\ LoaderIdle

\* table.meta.status(current_slot, slot_hashes)
Status ==
    /\ alt_result = NoResult
    /\ alt_result' = [op |-> "status",
                      value |-> status(table.meta, current_slot, slot_hashes)]
    /\ UNCHANGED <<msg_vars, tx_vars, table, current_slot, slot_hashes,
                   slot_start, sysvar_vars, compile_vars, loader_vars>>

\* table.get_active_addresses_len(current_slot, slot_hashes)
GetActiveAddressesLen ==
    /\ alt_result = NoResult
    /\ LET r == get_active_addresses_len(table, current_slot, slot_hashes) IN
         alt_result' = [op |-> "get_active_addresses_len",
                        ok |-> r.ok, value |-> r.value]
    /\ UNCHANGED <<msg_vars, tx_vars, table, current_slot, slot_hashes,
                   slot_start, sysvar_vars, compile_vars, loader_vars>>

\* table.lookup(current_slot, indexes, slot_hashes)
Lookup ==
    /\ alt_result = NoResult
    /\ \E indexes \in IndexLists :
         LET r == lookup(table, current_slot, indexes, slot_hashes) IN
         alt_result' = [op |-> "lookup", indexes |-> indexes,
                        ok |-> r.ok, value |-> r.value]
    /\ UNCHANGED <<msg_vars, tx_vars, table, current_slot, slot_hashes,
                   slot_start, sysvar_vars, compile_vars, loader_vars>>

\* one operation is applied to each table, slot and history drawn
NextAlt == Status \/ GetActiveAddressesLen \/ Lookup

SpecAlt == InitAlt /\ [][NextAlt]_vars

\* the table is Deactivated, said without the search: it has a deactivation
\* slot, that slot is not the current one and no history entry holds it
TableDeactivated ==
    /\ table.meta.deactivation_slot # Slot_MAX
    /\ table.meta.deactivation_slot # current_slot
    /\ \A p \in 1..Len(slot_hashes) : slot_hashes[p] # table.meta.deactivation_slot

\* the active length the rule of the same-slot extension gives
ActiveLength ==
    IF current_slot > table.meta.last_extended_slot
    THEN Len(table.addresses)
    ELSE table.meta.last_extended_slot_start_index

C8_ActiveLength ==
    (alt_result.op = "get_active_addresses_len" /\ ~TableDeactivated) =>
        /\ alt_result.ok
        /\ current_slot > table.meta.last_extended_slot =>
              alt_result.value = Len(table.addresses)
        /\ current_slot <= table.meta.last_extended_slot =>
              alt_result.value = table.meta.last_extended_slot_start_index

\* asked in the slot of the last extension: only the addresses from before
\* that extension count
C8_Witness ==
    /\ alt_result.op = "get_active_addresses_len"
    /\ ~TableDeactivated
    /\ current_slot = table.meta.last_extended_slot
    /\ table.meta.last_extended_slot_start_index < Len(table.addresses)
    /\ alt_result.value = table.meta.last_extended_slot_start_index

(***************************************************************************)
(* C9: get_active_addresses_len and lookup fail with                       *)
(* LookupTableAccountNotFound exactly when the table is Deactivated        *)
(* (deactivation_slot d # Slot_MAX, current_slot # d, d not in the         *)
(* history); an Activated or Deactivating table never gets that error, and *)
(* a Deactivated one never gets another, whatever indexes are asked for.   *)
(***************************************************************************)
C9_NotFoundIffDeactivated ==
    alt_result.op \in {"get_active_addresses_len", "lookup"} =>
        (TableDeactivated <=>
            (~alt_result.ok /\ alt_result.value = "LookupTableAccountNotFound"))

\* a Deactivated table asked for an index it does not have
C9_Witness ==
    /\ alt_result.op = "lookup"
    /\ TableDeactivated
    /\ Len(alt_result.indexes) = 1
    /\ alt_result.indexes[1] >= Len(table.addresses)
    /\ alt_result.value = "LookupTableAccountNotFound"

(***************************************************************************)
(* C10: status is Activated when deactivation_slot = Slot_MAX, at every    *)
(* slot and for every history; with a deactivation slot d # Slot_MAX it is *)
(* Deactivating{MAX_ENTRIES + 1 = 513} when current_slot = d, whatever the *)
(* history holds; Deactivating{512 - p} when current_slot # d and d is at  *)
(* (0-based) position p of the history; Deactivated when current_slot # d  *)
(* and d is not in the history.                                            *)
(***************************************************************************)
C10_Status ==
    alt_result.op = "status" =>
        LET d == table.meta.deactivation_slot IN
        /\ d = Slot_MAX =>
              alt_result.value.kind = "Activated"
        /\ (d # Slot_MAX /\ current_slot = d) =>
              /\ alt_result.value.kind = "Deactivating"
              /\ alt_result.value.remaining_blocks = 513
        /\ \A p \in 0..(Len(slot_hashes) - 1) :
              (d # Slot_MAX /\ current_slot # d /\ slot_hashes[p + 1] = d) =>
                  /\ alt_result.value.kind = "Deactivating"
                  /\ alt_result.value.remaining_blocks = 512 - p
        /\ TableDeactivated => alt_result.value.kind = "Deactivated"

\* the deactivation slot is the second entry of the history
C10_Witness ==
    /\ alt_result.op = "status"
    /\ table.meta.deactivation_slot # Slot_MAX
    /\ current_slot # table.meta.deactivation_slot
    /\ Len(slot_hashes) = 2
    /\ slot_hashes[2] = table.meta.deactivation_slot
    /\ alt_result.value = [kind |-> "Deactivating", remaining_blocks |-> 511]

(***************************************************************************)
(* The chain: blocks are produced at strictly increasing slots, and the    *)
(* slot-hash history a block sees holds the slots of the blocks before it, *)
(* newest first, at most MAX_ENTRIES of them.                              *)
(***************************************************************************)
MaxSkipped == 1         \* most slots skipped between two produced blocks

\* number of entries of the slot-hash history
get_entries == MAX_ENTRIES

estimate_last_valid_slot_late(deactivation_slot) ==
    Min(deactivation_slot + get_entries + 2, Slot_MAX)

\* deactivation_slot.saturating_add(get_entries() as Slot)
estimate_last_valid_slot(deactivation_slot) ==
    Min(deactivation_slot + get_entries, Slot_MAX)

\* SlotHashes::add: the new slot goes first and the oldest entry is dropped
\* once the history is full
slot_hashes_add(history, slot) ==
    LET h == <<slot>> \o history IN
    IF Len(h) > MAX_ENTRIES THEN SubSeq(h, 1, MAX_ENTRIES) ELSE h

\* a chain starts at slot 0, or late enough for the estimate to saturate
ChainStarts == {0, Slot_MAX - MAX_ENTRIES - 1}

\* the first MaxSlot slots of a chain: where blocks are skipped and the
\* table is deactivated
EarlyChain(slot) == \E s0 \in ChainStarts : slot >= s0 /\ slot < s0 + MaxSlot

NewTable ==
    [meta |-> [deactivation_slot |-> Slot_MAX,
               last_extended_slot |-> 0,
               last_extended_slot_start_index |-> 0],
     addresses |-> <<>>]

InitChain ==
    /\ MsgIdle
    /\ TxIdle
    /\ table = NewTable
    /\ current_slot \in ChainStarts
    /\ slot_hashes = <<>>
    /\ alt_result = NoResult
    /\ slot_start = [op |-> "none"]
    /\ SysvarIdle
    /\ CompileIdle
    /\ LoaderIdle

\* the next block is produced, some slots later, and asks for the status
ProduceBlock ==
    /\ \E skipped \in 0..MaxSkipped :
         /\ skipped > 0 => EarlyChain(current_slot)
         /\ current_slot + 1 + skipped <= Slot_MAX
         /\ current_slot' = current_slot + 1 + skipped
    /\ table.meta.deactivation_slot = Slot_MAX => EarlyChain(current_slot)
    /\ slot_hashes' = slot_hashes_add(slot_hashes, current_slot)
    /\ alt_result' = [op |-> "status",
                      value |-> status(table.meta, current_slot', slot_hashes')]
    /\ UNCHANGED <<msg_vars, tx_vars, table, slot_start,
                   sysvar_vars, compile_vars, loader_vars>>

\* the table is deactivated in the current block
Deactivate ==
    /\ table.meta.deactivation_slot = Slot_MAX
    /\ EarlyChain(current_slot)
    /\ table' = [table EXCEPT !.meta.deactivation_slot = current_slot]
    /\ alt_result' = [op |-> "status",
                      value |-> status(table'.meta, current_slot, slot_hashes)]
    /\ UNCHANGED <<msg_vars, tx_vars, current_slot, slot_hashes, slot_start,
                   sysvar_vars, compile_vars, loader_vars>>

NextChain == ProduceBlock \/ Deactivate

SpecChain == InitChain /\ [][NextChain]_vars

(***************************************************************************)
(* C11: estimate_last_valid_slot(d) is d + MAX_ENTRIES, saturating at      *)
(* Slot_MAX, and in every run of the chain in which the table was          *)
(* deactivated in the block at slot d, the status asked for in a block at  *)
(* a slot lower than estimate_last_valid_slot(d) is Deactivating, never    *)
(* Deactivated.                                                            *)
(***************************************************************************)
C11_EstimateNeverOverstates ==
    LET d == table.meta.deactivation_slot IN
    /\ \A s \in ChainStarts \cup {Slot_MAX - 1, Slot_MAX} :
         estimate_last_valid_slot(s) =
             IF s + MAX_ENTRIES > Slot_MAX THEN Slot_MAX ELSE s + MAX_ENTRIES
    /\ (/\ alt_result.op = "status"
        /\ d # Slot_MAX
        /\ current_slot < estimate_last_valid_slot(d))
       => alt_result.value.kind = "Deactivating"

\* the last block below the estimate of a chain that skips nothing: the
\* deactivation slot is the second oldest entry the history can hold
C11_Witness ==
    /\ alt_result.op = "status"
    /\ table.meta.deactivation_slot = 1
    /\ current_slot = estimate_last_valid_slot(1) - 1
    /\ Len(slot_hashes) = MAX_ENTRIES
    /\ alt_result.value = Deactivating(2)

\* the table does leave the history: the first block past the estimate
C11_Expired ==
    /\ alt_result.op = "status"
    /\ table.meta.deactivation_slot # Slot_MAX
    /\ current_slot = estimate_last_valid_slot(table.meta.deactivation_slot) + 1
    /\ alt_result.value = Deactivated

(***************************************************************************)
(* Extensions and lookups of one table, interleaved within a slot and      *)
(* across slots.  slot_start is the table as the current slot found it.    *)
(***************************************************************************)
\* ExtendLookupTable: the addresses are appended, and the first extension
\* of a slot records the slot and the length the table had
extend(t, slot, new_addresses) ==
    [meta |->
        [t.meta EXCEPT
            !.last_extended_slot = slot,
            !.last_extended_slot_start_index =
                IF slot # t.meta.last_extended_slot
                THEN Len(t.addresses) ELSE @],
     addresses |-> t.addresses \o new_addresses]

\* a table, a slot not before its last extension, and the slots before it
InitExtend ==
    /\ MsgIdle
    /\ TxIdle
    /\ table \in Tables
    /\ current_slot \in Slots
    /\ table.meta.last_extended_slot <= current_slot
    /\ slot_hashes \in Histories
    /\ \A i \in 1..Len(slot_hashes) : slot_hashes[i] < current_slot
    /\ alt_result = NoResult
    /\ slot_start = table
    /\ SysvarIdle
    /\ CompileIdle
    /\ LoaderIdle

\* a transaction of the current slot extends the table
ExtendTable ==
    /\ \E k \in 1..(MaxAddresses + 1 - Len(table.addresses)) :
         table' = extend(table, current_slot,
                         [j \in 1..k |-> AddressAt(Len(table.addresses) + j)])
    /\ alt_result' = [op |-> "extend"]
    /\ UNCHANGED <<msg_vars, tx_vars, current_slot, slot_hashes, slot_start,
                   sysvar_vars, compile_vars, loader_vars>>

\* the indexes a transaction looks up: one index, or index 0 and another;
\* MaxAddresses is the last index of a table extended to its largest
ProbeLists ==
    {<<i>> : i \in 0..MaxAddresses} \cup {<<0, i>> : i \in 0..MaxAddresses}

\* a transaction of the current slot looks addresses up
LookupInSlot ==
    /\ \E indexes \in ProbeLists :
         LET r == lookup(table, current_slot, indexes, slot_hashes) IN
         alt_result' = [op |-> "lookup", indexes |-> indexes,
                        ok |-> r.ok, value |-> r.value]
    /\ UNCHANGED <<msg_vars, tx_vars, table, current_slot, slot_hashes,
                   slot_start, sysvar_vars, compile_vars, loader_vars>>

\* the next block begins
NextSlot ==
    /\ current_slot < MaxSlot
    /\ current_slot' = current_slot + 1
    /\ slot_hashes' = slot_hashes_add(slot_hashes, current_slot)
    /\ slot_start' = table
    /\ alt_result' = NoResult
    /\ UNCHANGED <<msg_vars, tx_vars, table, sysvar_vars, compile_vars, loader_vars>>

NextExtend == ExtendTable \/ LookupInSlot \/ NextSlot

SpecExtend == InitExtend /\ [][NextExtend]_vars

(***************************************************************************)
(* C26: deactivation is a one-way countdown. In a chain whose every block  *)
(* moves current_slot to a strictly later slot and pushes the previous     *)
(* block's slot onto the front of the history, a table deactivated in the  *)
(* block at slot d reports Deactivating with 513 remaining blocks at slot  *)
(* d, then 512, 511, ..., 1 on the successive blocks (never less than 1    *)
(* while Deactivating), then Deactivated; once Deactivated it is           *)
(* Deactivated at every later block and never Activated or Deactivating    *)
(* again.                                                                  *)
(***************************************************************************)
C26_OneWayCountdown ==
    /\ [](table.meta.deactivation_slot # Slot_MAX =>
            /\ alt_result.op = "status"
            /\ alt_result.value = status(table.meta, current_slot, slot_hashes)
            /\ alt_result.value.kind # "Activated"
            /\ current_slot = table.meta.deactivation_slot =>
                   alt_result.value = Deactivating(MAX_ENTRIES + 1)
            /\ alt_result.value.kind = "Deactivating" =>
                   alt_result.value.remaining_blocks >= 1)
    /\ [][(table.meta.deactivation_slot # Slot_MAX /\ current_slot' # current_slot)
            => /\ current_slot' > current_slot
               /\ slot_hashes'[1] = current_slot
               /\ alt_result.value.kind = "Deactivating" =>
                    alt_result'.value =
                        IF alt_result.value.remaining_blocks > 1
                        THEN Deactivating(alt_result.value.remaining_blocks - 1)
                        ELSE Deactivated
               /\ alt_result.value.kind = "Deactivated" =>
                    alt_result'.value = Deactivated]_vars

\* a table deactivated at slot 1 after a skipped slot, well past its
\* cool-down: the history has long dropped slot 1
C26_Witness ==
    /\ alt_result.op = "status"
    /\ table.meta.deactivation_slot = 1
    /\ current_slot = 1 + MAX_ENTRIES + MaxSlot + 40
    /\ Len(slot_hashes) = MAX_ENTRIES
    /\ alt_result.value = Deactivated

\* the last block of the cool-down
C26_LastBlock ==
    /\ alt_result.op = "status"
    /\ table.meta.deactivation_slot = 2
    /\ alt_result.value = Deactivating(1)

(***************************************************************************)
(* C12: within a slot s, extending the table does not change what lookups  *)
(* at current_slot = s observe: whatever extensions and lookups came       *)
(* before it in the slot, a lookup returns what the same indexes returned  *)
(* on the table as slot s found it; the addresses appended in slot s       *)
(* resolve in no lookup of slot s and in the lookups of later slots.       *)
(***************************************************************************)
C12_ExtensionInvisibleInSlot ==
    alt_result.op = "lookup" =>
        LET before == lookup(slot_start, current_slot, alt_result.indexes,
                             slot_hashes)
            meta == table.meta
        IN
        /\ alt_result.ok = before.ok
        /\ alt_result.value = before.value
        /\ (/\ meta.last_extended_slot = current_slot
            /\ \E k \in 1..Len(alt_result.indexes) :
                 alt_result.indexes[k] >= meta.last_extended_slot_start_index)
           => ~alt_result.ok
        /\ (/\ meta.last_extended_slot < current_slot
            /\ is_active(meta, current_slot, slot_hashes)
            /\ \A k \in 1..Len(alt_result.indexes) :
                 alt_result.indexes[k] < Len(table.addresses))
           => /\ alt_result.ok
              /\ alt_result.value =
                   [k \in 1..Len(alt_result.indexes) |->
                        table.addresses[alt_result.indexes[k] + 1]]

\* a lookup after two extensions in its slot resolves the addresses the slot
\* began with
C12_Witness ==
    /\ alt_result.op = "lookup"
    /\ Len(slot_start.addresses) = 1
    /\ Len(table.addresses) = 3
    /\ table.meta.last_extended_slot = current_slot
    /\ table.meta.last_extended_slot_start_index = 1
    /\ slot_start.meta.last_extended_slot < current_slot
    /\ alt_result.indexes = <<0>>
    /\ alt_result.ok

\* an address appended in an earlier slot resolves
C12_VisibleLater ==
    /\ alt_result.op = "lookup"
    /\ table.meta.last_extended_slot = current_slot - 1
    /\ table.meta.last_extended_slot_start_index = 1
    /\ alt_result.indexes = <<1>>
    /\ alt_result.ok

(***************************************************************************)
(* The instructions sysvar codec (program/src/instructions_sysvar_inner.rs) *)
(* over byte buffers: a buffer is a sequence of bytes 0..255, an address   *)
(* is its PUBKEY_BYTES bytes, and a u16 is stored in two bytes, low byte   *)
(* first.  A reader returns the value read and the advanced cursor, or an  *)
(* error.                                                                  *)
(***************************************************************************)
PUBKEY_BYTES == 32
U16_MAX == 65535

\* `n as u16`
as_u16(n) == n % (U16_MAX + 1)

\* u16::to_le_bytes, u16::from_le_bytes
to_le_bytes(n) == <<n % 256, n \div 256>>
from_le_bytes(lo, hi) == lo + 256 * hi

\* the address with number k: its first byte is k, the others are zero
PubkeyOf(k) == [i \in 1..PUBKEY_BYTES |-> IF i = 1 THEN k ELSE 0]

\* the error of a read past the end of the buffer, and the outcomes of a read
MalformedData == "MalformedData"
ReadOk(v, c) == [ok |-> TRUE, value |-> v, current |-> c]
ReadErr == [ok |-> FALSE, value |-> MalformedData]

read_u8(current, data) ==
    IF Len(data) < current + 1 THEN ReadErr
    ELSE ReadOk(data[current + 1], current + 1)

read_u16(current, data) ==
    IF Len(data) < current + 2 THEN ReadErr
    ELSE ReadOk(from_le_bytes(data[current + 1], data[current + 2]),
                current + 2)

read_pubkey(current, data) ==
    IF Len(data) < current + PUBKEY_BYTES THEN ReadErr
    ELSE ReadOk(SubSeq(data, current + 1, current + PUBKEY_BYTES),
                current + PUBKEY_BYTES)

read_slice(current, data, data_len) ==
    IF Len(data) < current + data_len THEN ReadErr
    ELSE ReadOk(SubSeq(data, current + 1, current + data_len),
                current + data_len)

\* append_u16
append_u16(data, n) == data \o to_le_bytes(n)

\* a plausible slip: the two bits exchanged
account_meta_flags_bits_exchanged(account_meta) ==
    (IF account_meta.is_signer THEN 2 ELSE 0)
    + (IF account_meta.is_writable THEN 1 ELSE 0)

\* InstructionsSysvarAccountMeta: IS_SIGNER = 0b01, IS_WRITABLE = 0b10
account_meta_flags(account_meta) ==
    (IF account_meta.is_signer THEN 1 ELSE 0)
    + (IF account_meta.is_writable THEN 2 ELSE 0)

\* the flags byte and the address of every account of a call, in order
RECURSIVE serialize_account_metas(_, _)
serialize_account_metas(accounts, k) ==
    IF k > Len(accounts) THEN <<>>
    ELSE <<account_meta_flags(accounts[k])>> \o accounts[k].pubkey
         \o serialize_account_metas(accounts, k + 1)

\* the body of the loop of serialize_instructions, from call i (0-based) on:
\* the offset entry of the call is overwritten with `data.len() as u16` and
\* its block is appended
RECURSIVE serialize_instruction_blocks(_, _, _)
serialize_instruction_blocks(instrs, i, data) ==
    IF i >= Len(instrs) THEN data
    ELSE LET instruction == instrs[i + 1]
             start_instruction_offset == to_le_bytes(as_u16(Len(data)))
             start == 2 + (2 * i)
             with_offset ==
                 [data EXCEPT ![start + 1] = start_instruction_offset[1],
                              ![start + 2] = start_instruction_offset[2]]
         IN  serialize_instruction_blocks(instrs, i + 1,
                 append_u16(
                     append_u16(with_offset, as_u16(Len(instruction.accounts)))
                     \o serialize_account_metas(instruction.accounts, 1)
                     \o instruction.program_id,
                     as_u16(Len(instruction.data)))
                 \o instruction.data)

\* serialize_instructions: the count, a zeroed offset table, the blocks
sysvar_serialize_instructions(instrs) ==
    serialize_instruction_blocks(instrs, 0,
        append_u16(<<>>, as_u16(Len(instrs)))
        \o [k \in 1..(2 * Len(instrs)) |-> 0])

\* construct_instructions_data: two more bytes, zero, for the current index
construct_instructions_data(instrs) ==
    sysvar_serialize_instructions(instrs) \o <<0, 0>>

\* results of the codec: a value, a SanitizeError or ProgramError, an abort
SysvarOk(v) == [ok |-> TRUE, value |-> v]
SysvarErr(e) == [ok |-> FALSE, value |-> e]
SysvarPanic == [ok |-> FALSE, value |-> "panic"]

\* bit b of a byte
BitSet(byte, b) == (byte \div (2^b)) % 2 = 1

read_account_meta_signer_bit_twice(current, data) ==
    LET meta_byte == read_u8(current, data) IN
    IF ~meta_byte.ok THEN meta_byte
    ELSE LET pubkey == read_pubkey(meta_byte.current, data) IN
         IF ~pubkey.ok THEN pubkey
         ELSE ReadOk([pubkey |-> pubkey.value,
                      is_signer |-> BitSet(meta_byte.value, 0),
                      is_writable |-> BitSet(meta_byte.value, 0)],
                     pubkey.current)

\* one round of the loop of deserialize_instruction: the flags byte
\* (IS_SIGNER_BIT = 0, IS_WRITABLE_BIT = 1), then the address
read_account_meta(current, data) ==
    LET meta_byte == read_u8(current, data) IN
    IF ~meta_byte.ok THEN meta_byte
    ELSE LET pubkey == read_pubkey(meta_byte.current, data) IN
         IF ~pubkey.ok THEN pubkey
         ELSE ReadOk([pubkey |-> pubkey.value,
                      is_signer |-> BitSet(meta_byte.value, 0),
                      is_writable |-> BitSet(meta_byte.value, 1)],
                     pubkey.current)

\* the loop of deserialize_instruction: num_accounts rounds, or the first
\* error
RECURSIVE read_account_metas(_, _, _, _)
read_account_metas(current, data, num_accounts, accounts) ==
    IF Len(accounts) = num_accounts THEN ReadOk(accounts, current)
    ELSE LET meta == read_account_meta(current, data) IN
         IF ~meta.ok THEN meta
         ELSE read_account_metas(meta.current, data, num_accounts,
                                 Append(accounts, meta.value))

\* deserialize_instruction, from the block at `start` on
deserialize_instruction_block(start, data) ==
    LET num_accounts == read_u16(start, data) IN
    IF ~num_accounts.ok THEN SysvarErr(num_accounts.value)
    ELSE
    LET accounts == read_account_metas(num_accounts.current, data,
                                       num_accounts.value, <<>>) IN
    IF ~accounts.ok THEN SysvarErr(accounts.value)
    ELSE
    LET program_id == read_pubkey(accounts.current, data) IN
    IF ~program_id.ok THEN SysvarErr(program_id.value)
    ELSE
    LET data_len == read_u16(program_id.current, data) IN
    IF ~data_len.ok THEN SysvarErr(data_len.value)
    ELSE
    LET bytes == read_slice(data_len.current, data, data_len.value) IN
    IF ~bytes.ok THEN SysvarErr(bytes.value)
    ELSE SysvarOk([program_id |-> program_id.value,
                   accounts |-> accounts.value,
                   data |-> bytes.value])

deserialize_instruction_unchecked_index(index, data) ==
    LET num_instructions == read_u16(0, data) IN
    IF ~num_instructions.ok THEN SysvarErr(num_instructions.value)
    ELSE
    LET start == read_u16(num_instructions.current + index * 2, data) IN
    IF ~start.ok THEN SysvarErr(start.value)
    ELSE deserialize_instruction_block(start.value, data)

\* deserialize_instruction: the count, the index check, the offset entry of
\* the index, the block at that offset
deserialize_instruction(index, data) ==
    LET num_instructions == read_u16(0, data) IN
    IF ~num_instructions.ok THEN SysvarErr(num_instructions.value)
    ELSE IF index >= num_instructions.value THEN SysvarErr(IndexOutOfBounds)
    ELSE
    LET start == read_u16(num_instructions.current + index * 2, data) IN
    IF ~start.ok THEN SysvarErr(start.value)
    ELSE deserialize_instruction_block(start.value, data)

\* load_instruction_at
load_instruction_at(index, data) == deserialize_instruction(index, data)

\* the sysvar's address and another one
SysvarInstructionsId == PubkeyOf(200)
OtherAccountId == PubkeyOf(201)

\* check_id
check_id(key) == key = SysvarInstructionsId

\* the map_err of load_instruction_at_checked and get_instruction_relative
to_program_error(r) ==
    IF r.ok THEN r
    ELSE IF r.value = IndexOutOfBounds THEN SysvarErr("InvalidArgument")
    ELSE SysvarErr("InvalidInstructionData")

\* load_instruction_at_checked
load_instruction_at_checked(index, info) ==
    IF ~check_id(info.key) THEN SysvarErr("UnsupportedSysvar")
    ELSE to_program_error(load_instruction_at(index, info.data))

\* load_current_index: the last two bytes; the slice data[len - 2..len] of
\* a shorter buffer aborts
load_current_index(data) ==
    IF Len(data) < 2 THEN SysvarPanic
    ELSE SysvarOk(from_le_bytes(data[Len(data) - 1], data[Len(data)]))

\* load_current_index_checked: the account key is checked, the length of
\* the data is not
load_current_index_checked(info) ==
    IF ~check_id(info.key) THEN SysvarErr("UnsupportedSysvar")
    ELSE load_current_index(info.data)

store_current_index_checked_big_endian(data, instruction_index) ==
    IF Len(data) < 2
    THEN [result |-> SysvarErr("AccountDataTooSmall"), data |-> data]
    ELSE [result |-> SysvarOk("unit"),
          data |-> [data EXCEPT
                      ![Len(data) - 1] = to_le_bytes(instruction_index)[2],
                      ![Len(data)] = to_le_bytes(instruction_index)[1]]]

\* a plausible slip: last_index left at 0, the index stored over the count
store_current_index_checked_at_front(data, instruction_index) ==
    IF Len(data) < 2
    THEN [result |-> SysvarErr("AccountDataTooSmall"), data |-> data]
    ELSE [result |-> SysvarOk("unit"),
          data |-> [data EXCEPT
                      ![1] = to_le_bytes(instruction_index)[1],
                      ![2] = to_le_bytes(instruction_index)[2]]]

\* store_current_index_checked: the result and the buffer it leaves
store_current_index_checked(data, instruction_index) ==
    IF Len(data) < 2
    THEN [result |-> SysvarErr("AccountDataTooSmall"), data |-> data]
    ELSE [result |-> SysvarOk("unit"),
          data |-> [data EXCEPT
                      ![Len(data) - 1] = to_le_bytes(instruction_index)[1],
                      ![Len(data)] = to_le_bytes(instruction_index)[2]]]

get_instruction_relative_subtracting(index_relative_to_current, info) ==
    IF ~check_id(info.key)
    THEN [result |-> SysvarErr("UnsupportedSysvar"), decoded |-> FALSE]
    ELSE LET current_index == load_current_index(info.data) IN
    IF ~current_index.ok THEN [result |-> SysvarPanic, decoded |-> FALSE]
    ELSE LET index == current_index.value - index_relative_to_current IN
    IF index < 0
    THEN [result |-> SysvarErr("InvalidArgument"), decoded |-> FALSE]
    ELSE [result |-> to_program_error(load_instruction_at(index, info.data)),
          decoded |-> TRUE]

\* get_instruction_relative: the result, and whether a decode was attempted.
\* current_index is at most U16_MAX, so the saturating i64 addition is exact
\* for every offset the model draws.
get_instruction_relative(index_relative_to_current, info) ==
    IF ~check_id(info.key)
    THEN [result |-> SysvarErr("UnsupportedSysvar"), decoded |-> FALSE]
    ELSE LET current_index == load_current_index(info.data) IN
    IF ~current_index.ok THEN [result |-> SysvarPanic, decoded |-> FALSE]
    ELSE LET index == current_index.value + index_relative_to_current IN
    IF index < 0
    THEN [result |-> SysvarErr("InvalidArgument"), decoded |-> FALSE]
    ELSE [result |-> to_program_error(load_instruction_at(index, info.data)),
          decoded |-> TRUE]

(***************************************************************************)
(* The buffers and calls the codec is applied to.                          *)
(***************************************************************************)
MaxSysvarCalls == 2     \* most calls of a list the sysvar is built from
MaxRelative == 2        \* largest relative index, either way

AccountMetaOf(k, signer, writable) ==
    [pubkey |-> PubkeyOf(k), is_signer |-> signer, is_writable |-> writable]

InstructionOf(k, accounts, data) ==
    [program_id |-> PubkeyOf(k), accounts |-> accounts, data |-> data]

\* calls with no, one and two accounts, every combination of the two flags,
\* and no, one and two bytes of data
SampleInstructions ==
    {InstructionOf(1, <<>>, <<>>),
     InstructionOf(1, <<AccountMetaOf(2, TRUE, TRUE)>>, <<7>>),
     InstructionOf(2, <<AccountMetaOf(1, FALSE, TRUE)>>, <<>>),
     InstructionOf(2, <<AccountMetaOf(1, TRUE, FALSE),
                        AccountMetaOf(3, FALSE, FALSE)>>, <<7, 255>>)}

SysvarInstructionLists == SeqUpTo(SampleInstructions, MaxSysvarCalls)

\* a call without accounts and with n zero bytes of data
PaddedInstruction(n) == InstructionOf(1, <<>>, [k \in 1..n |-> 0])

\* the size of the block of a call
BlockSize(instruction) ==
    2 + (1 + PUBKEY_BYTES) * Len(instruction.accounts) + PUBKEY_BYTES + 2
    + Len(instruction.data)

\* where the block of call i (0-based) begins: after the count, the offset
\* table and the blocks before it
RECURSIVE BlockStart(_, _)
BlockStart(instrs, i) ==
    IF i = 0 THEN 2 + 2 * Len(instrs)
    ELSE BlockStart(instrs, i - 1) + BlockSize(instrs[i])

\* two calls, the second beginning at the last offset a u16 holds, and two
\* calls, the second beginning one byte later
LongLists ==
    {<<PaddedInstruction(U16_MAX - 6 - BlockSize(PaddedInstruction(0)) + d),
       InstructionOf(2, <<AccountMetaOf(1, TRUE, FALSE)>>, <<7>>)>> :
        d \in {0, 1}}

\* the current indexes stored by the tests of store_current_index_checked
StoredIndexes == {0, 1, 258, U16_MAX}

\* the buffers built from a list of calls, with a current index stored
BuiltBuffers(instrs) ==
    {store_current_index_checked(construct_instructions_data(instrs), c).data :
        c \in 0..MaxSysvarCalls}

\* a built buffer cut short
TruncatedBuffers(instrs) ==
    LET data == construct_instructions_data(instrs) IN
    {SubSeq(data, 1, n) : n \in 0..(Len(data) - 1)}

\* a built buffer with one byte of its count or offset table overwritten
CorruptedBuffers(instrs) ==
    LET data == construct_instructions_data(instrs) IN
    {[data EXCEPT ![p] = v] : p \in 1..(2 + 2 * Len(instrs)), v \in {0, 3, 255}}

SysvarAccounts(instrs) ==
    {[key |-> SysvarInstructionsId, data |-> data] :
        data \in BuiltBuffers(instrs) \cup TruncatedBuffers(instrs)
                 \cup CorruptedBuffers(instrs)}
    \cup {[key |-> OtherAccountId, data |-> construct_instructions_data(instrs)]}

InitSysvar ==
    /\ MsgIdle
    /\ TxIdle
    /\ AltIdle
    /\ CompileIdle
    /\ LoaderIdle
    /\ sysvar_result = NoResult
    /\ \/ /\ sysvar_source \in SysvarInstructionLists
          /\ account \in SysvarAccounts(sysvar_source)
       \/ /\ sysvar_source \in LongLists
          /\ account = [key |-> SysvarInstructionsId,
                        data |-> construct_instructions_data(sysvar_source)]

\* deserialize_instruction(index, data)
DeserializeInstruction ==
    /\ sysvar_result = NoResult
    /\ \E index \in 0..MaxSysvarCalls :
         LET r == deserialize_instruction(index, account.data) IN
         sysvar_result' = [op |-> "deserialize_instruction", index |-> index,
                           ok |-> r.ok, value |-> r.value]
    /\ UNCHANGED <<msg_vars, tx_vars, alt_vars, compile_vars, loader_vars,
                   account, sysvar_source>>

\* load_instruction_at_checked(index, account)
LoadInstructionAtChecked ==
    /\ sysvar_result = NoResult
    /\ \E index \in 0..MaxSysvarCalls :
         LET r == load_instruction_at_checked(index, account) IN
         sysvar_result' = [op |-> "load_instruction_at_checked",
                           index |-> index, ok |-> r.ok, value |-> r.value]
    /\ UNCHANGED <<msg_vars, tx_vars, alt_vars, compile_vars, loader_vars,
                   account, sysvar_source>>

\* store_current_index_checked(data, instruction_index); the result keeps
\* the buffer as it was
StoreCurrentIndexChecked ==
    /\ sysvar_result = NoResult
    /\ \E instruction_index \in StoredIndexes :
         LET r == store_current_index_checked(account.data, instruction_index)
         IN  /\ account' = [account EXCEPT !.data = r.data]
             /\ sysvar_result' = [op |-> "store_current_index_checked",
                                  index |-> instruction_index,
                                  ok |-> r.result.ok,
                                  value |-> r.result.value,
                                  before |-> account.data]
    /\ UNCHANGED <<msg_vars, tx_vars, alt_vars, compile_vars, loader_vars, sysvar_source>>

\* get_instruction_relative(index_relative_to_current, account)
GetInstructionRelative ==
    /\ sysvar_result = NoResult
    /\ \E relative \in (0 - MaxRelative)..MaxRelative :
         LET r == get_instruction_relative(relative, account) IN
         sysvar_result' = [op |-> "get_instruction_relative",
                           relative |-> relative, decoded |-> r.decoded,
                           ok |-> r.result.ok, value |-> r.result.value]
    /\ UNCHANGED <<msg_vars, tx_vars, alt_vars, compile_vars, loader_vars,
                   account, sysvar_source>>

\* load_current_index_checked(account)
LoadCurrentIndexChecked ==
    /\ sysvar_result = NoResult
    /\ LET r == load_current_index_checked(account) IN
         sysvar_result' = [op |-> "load_current_index_checked",
                           ok |-> r.ok, value |-> r.value]
    /\ UNCHANGED <<msg_vars, tx_vars, alt_vars, compile_vars, loader_vars,
                   account, sysvar_source>>

NextSysvar ==
    \/ DeserializeInstruction
    \/ LoadInstructionAtChecked
    \/ StoreCurrentIndexChecked
    \/ GetInstructionRelative
    \/ LoadCurrentIndexChecked

SpecSysvar == InitSysvar /\ [][NextSysvar]_vars

\* the buffer was built from the calls; its last two bytes may have been
\* stored since
BuiltFrom(data, instrs) ==
    /\ Len(data) >= 2
    /\ SubSeq(data, 1, Len(data) - 2) = sysvar_serialize_instructions(instrs)

\* every count, every data length and every block offset of the encoding of
\* the calls is a value a u16 holds
FitsU16(instrs) ==
    /\ Len(instrs) <= U16_MAX
    /\ \A i \in 1..Len(instrs) :
         /\ Len(instrs[i].accounts) <= U16_MAX
         /\ Len(instrs[i].data) <= U16_MAX
         /\ BlockStart(instrs, i - 1) <= U16_MAX

\* the call decoded is the call encoded
SameInstruction(decoded, instruction) ==
    /\ decoded.program_id = instruction.program_id
    /\ Len(decoded.accounts) = Len(instruction.accounts)
    /\ \A j \in 1..Len(instruction.accounts) :
         /\ decoded.accounts[j].pubkey = instruction.accounts[j].pubkey
         /\ decoded.accounts[j].is_signer = instruction.accounts[j].is_signer
         /\ decoded.accounts[j].is_writable =
                instruction.accounts[j].is_writable
    /\ decoded.data = instruction.data

(***************************************************************************)
(* C13, as stated: for every list of at most 65535 calls, decoding index   *)
(* i < count from the buffer built by construct_instructions_data yields   *)
(* a call equal to calls[i] in program id, accounts (address and both      *)
(* flags, in order) and data.  It fails on a list whose encoding puts a    *)
(* block past offset 65535: the offset entry holds `data.len() as u16`.    *)
(***************************************************************************)
C13_RoundTripEveryList ==
    (/\ sysvar_result.op = "deserialize_instruction"
     /\ BuiltFrom(account.data, sysvar_source)
     /\ Len(sysvar_source) <= U16_MAX
     /\ sysvar_result.index < Len(sysvar_source))
    => /\ sysvar_result.ok
       /\ SameInstruction(sysvar_result.value,
                          sysvar_source[sysvar_result.index + 1])

(***************************************************************************)
(* C13, amended: the round trip holds for every list of calls whose        *)
(* encoding keeps every block offset, and every account count and data     *)
(* length, within 65535: decoding index i < count from the buffer built by *)
(* construct_instructions_data yields a call equal to calls[i] in program  *)
(* id, accounts (address and both flags, in order) and data.               *)
(***************************************************************************)
C13_RoundTrip ==
    (/\ sysvar_result.op = "deserialize_instruction"
     /\ BuiltFrom(account.data, sysvar_source)
     /\ FitsU16(sysvar_source)
     /\ sysvar_result.index < Len(sysvar_source))
    => /\ sysvar_result.ok
       /\ SameInstruction(sysvar_result.value,
                          sysvar_source[sysvar_result.index + 1])

\* the second of two calls, whose block begins at offset 65535, is decoded
C13_Witness ==
    /\ sysvar_result.op = "deserialize_instruction"
    /\ BuiltFrom(account.data, sysvar_source)
    /\ FitsU16(sysvar_source)
    /\ Len(sysvar_source) = 2
    /\ BlockStart(sysvar_source, 1) = U16_MAX
    /\ sysvar_result.index = 1
    /\ sysvar_result.ok
    /\ Len(sysvar_result.value.accounts) = 1

\* a decoded call with two accounts and two bytes of data, after another
C13_SmallWitness ==
    /\ sysvar_result.op = "deserialize_instruction"
    /\ BuiltFrom(account.data, sysvar_source)
    /\ sysvar_result.index = 1
    /\ sysvar_result.ok
    /\ Len(sysvar_result.value.accounts) = 2
    /\ sysvar_result.value.data = <<7, 255>>

(***************************************************************************)
(* C14: decoding index i from any buffer returns a call or an error, never *)
(* an abort: IndexOutOfBounds when i >= the count held by the first two    *)
(* bytes; when i < count, the call or the malformed-data error, and the    *)
(* malformed-data error whenever the buffer is a built one cut short       *)
(* before the end of block i; load_instruction_at_checked on the sysvar    *)
(* account reports the former as InvalidArgument and the latter as         *)
(* InvalidInstructionData.                                                 *)
(***************************************************************************)
C14_DecodeErrors ==
    LET data == account.data
        count == from_le_bytes(data[1], data[2])
        built == construct_instructions_data(sysvar_source)
    IN
    /\ sysvar_result.op = "deserialize_instruction" =>
         LET i == sysvar_result.index IN
         /\ (sysvar_result.ok
             \/ sysvar_result.value \in {IndexOutOfBounds, MalformedData})
         /\ (Len(data) >= 2 /\ i >= count) =>
                (~sysvar_result.ok /\ sysvar_result.value = IndexOutOfBounds)
         /\ (Len(data) >= 2 /\ i < count) =>
                (sysvar_result.ok \/ sysvar_result.value = MalformedData)
         /\ (/\ Len(data) >= 2
             /\ i < count
             /\ data = SubSeq(built, 1, Len(data))
             /\ Len(data) < BlockStart(sysvar_source, i)
                            + BlockSize(sysvar_source[i + 1]))
            => (~sysvar_result.ok /\ sysvar_result.value = MalformedData)
    /\ (sysvar_result.op = "load_instruction_at_checked"
        /\ check_id(account.key)) =>
         LET decoded == deserialize_instruction(sysvar_result.index, data) IN
         /\ decoded.ok =>
                (sysvar_result.ok /\ sysvar_result.value = decoded.value)
         /\ (~decoded.ok /\ decoded.value = IndexOutOfBounds) =>
                (~sysvar_result.ok /\ sysvar_result.value = "InvalidArgument")
         /\ (~decoded.ok /\ decoded.value = MalformedData) =>
                (~sysvar_result.ok
                 /\ sysvar_result.value = "InvalidInstructionData")

\* a buffer cut short inside the block of its second call: the offset entry
\* is there, the block is not, and the account reports corrupted data
C14_Witness ==
    /\ sysvar_result.op = "load_instruction_at_checked"
    /\ check_id(account.key)
    /\ Len(sysvar_source) = 2
    /\ sysvar_result.index = 1
    /\ account.data = SubSeq(construct_instructions_data(sysvar_source), 1,
                             Len(account.data))
    /\ Len(account.data) > BlockStart(sysvar_source, 1) + 2
    /\ ~sysvar_result.ok
    /\ sysvar_result.value = "InvalidInstructionData"

\* an index past the count of a whole buffer
C14_PastCount ==
    /\ sysvar_result.op = "load_instruction_at_checked"
    /\ check_id(account.key)
    /\ BuiltFrom(account.data, sysvar_source)
    /\ sysvar_result.index = Len(sysvar_source)
    /\ ~sysvar_result.ok
    /\ sysvar_result.value = "InvalidArgument"

(***************************************************************************)
(* C15: store_current_index_checked(data, i) on a buffer of at least two   *)
(* bytes succeeds, writes i into the last two bytes, low byte first, and   *)
(* leaves the length and every other byte as they were, so that            *)
(* load_current_index then returns i; on a shorter buffer it fails with    *)
(* AccountDataTooSmall and leaves the buffer as it was.                    *)
(***************************************************************************)
C15_StoreCurrentIndex ==
    sysvar_result.op = "store_current_index_checked" =>
        LET before == sysvar_result.before
            after == account.data
            i == sysvar_result.index
            len == Len(before)
        IN
        /\ len >= 2 =>
             /\ sysvar_result.ok
             /\ Len(after) = len
             /\ after[len - 1] = i % 256
             /\ after[len] = i \div 256
             /\ \A k \in 1..(len - 2) : after[k] = before[k]
             /\ load_current_index(after) = SysvarOk(i)
        /\ len < 2 =>
             /\ ~sysvar_result.ok
             /\ sysvar_result.value = "AccountDataTooSmall"
             /\ after = before

\* 258 is stored over the cursor of a buffer that holds a call
C15_Witness ==
    /\ sysvar_result.op = "store_current_index_checked"
    /\ sysvar_result.ok
    /\ sysvar_result.index = 258
    /\ Len(sysvar_source) = 1
    /\ BuiltFrom(sysvar_result.before, sysvar_source)
    /\ account.data[Len(account.data) - 1] = 2
    /\ account.data[Len(account.data)] = 1

\* a buffer of one byte is refused
C15_TooSmall ==
    /\ sysvar_result.op = "store_current_index_checked"
    /\ Len(account.data) = 1
    /\ ~sysvar_result.ok
    /\ sysvar_result.value = "AccountDataTooSmall"

(***************************************************************************)
(* C16: get_instruction_relative(r) on the sysvar account adds r to the    *)
(* current index held by the last two bytes, in signed arithmetic; when    *)
(* the sum is negative it fails with InvalidArgument and attempts no       *)
(* decode; otherwise it returns what decoding the absolute index           *)
(* current_index + r returns: the call at that index, InvalidArgument when *)
(* the index is >= count, InvalidInstructionData on malformed data.        *)
(***************************************************************************)
C16_RelativeIsAbsolute ==
    (/\ sysvar_result.op = "get_instruction_relative"
     /\ check_id(account.key)
     /\ Len(account.data) >= 2) =>
        LET data == account.data
            current_index == from_le_bytes(data[Len(data) - 1], data[Len(data)])
            sum == current_index + sysvar_result.relative
            decoded == deserialize_instruction(sum, data)
        IN
        /\ sum < 0 =>
             /\ ~sysvar_result.decoded
             /\ ~sysvar_result.ok
             /\ sysvar_result.value = "InvalidArgument"
        /\ sum >= 0 =>
             /\ sysvar_result.decoded
             /\ decoded.ok =>
                  (sysvar_result.ok /\ sysvar_result.value = decoded.value)
             /\ (~decoded.ok /\ decoded.value = IndexOutOfBounds) =>
                  (~sysvar_result.ok
                   /\ sysvar_result.value = "InvalidArgument")
             /\ (~decoded.ok /\ decoded.value = MalformedData) =>
                  (~sysvar_result.ok
                   /\ sysvar_result.value = "InvalidInstructionData")
             /\ sum >= from_le_bytes(data[1], data[2]) =>
                  (~sysvar_result.ok
                   /\ sysvar_result.value = "InvalidArgument")

\* the call before the current one: current index 1, relative index -1
C16_Witness ==
    /\ sysvar_result.op = "get_instruction_relative"
    /\ check_id(account.key)
    /\ BuiltFrom(account.data, sysvar_source)
    /\ load_current_index(account.data) = SysvarOk(1)
    /\ sysvar_result.relative = 0 - 1
    /\ sysvar_result.ok
    /\ SameInstruction(sysvar_result.value, sysvar_source[1])

\* a relative index that reaches before the first call
C16_Negative ==
    /\ sysvar_result.op = "get_instruction_relative"
    /\ check_id(account.key)
    /\ BuiltFrom(account.data, sysvar_source)
    /\ load_current_index(account.data) = SysvarOk(1)
    /\ sysvar_result.relative = 0 - 2
    /\ ~sysvar_result.decoded
    /\ ~sysvar_result.ok
    /\ sysvar_result.value = "InvalidArgument"

(***************************************************************************)
(* Durable-nonce detection (transaction/src/versioned/mod.rs,              *)
(* program/src/message_inner/inline_nonce.rs).  Here the calls of a        *)
(* message carry their data, and the key table may hold the system         *)
(* program's address.                                                      *)
(***************************************************************************)
MaxNonceKeys == 2       \* longest static key table of a transaction at hand
MaxNonceCalls == 2      \* most calls of a transaction at hand

\* the index of the call that marks a transaction as using a durable nonce
NONCED_TX_MARKER_IX_INDEX == 0

\* system_program::ID, and system_program::check_id
SYSTEM_PROGRAM_ID == 0
system_program_check_id(key) == key = SYSTEM_PROGRAM_ID

\* the serialized SystemInstruction::AdvanceNonceAccount
ADVANCE_NONCE_DATA == <<4, 0, 0, 0>>

\* data.get(0..4) == Some(&ADVANCE_NONCE_DATA)
is_advance_nonce_instruction_data(data) ==
    Len(data) >= 4 /\ SubSeq(data, 1, 4) = ADVANCE_NONCE_DATA

uses_durable_nonce_any_call(t) ==
    \E k \in 1..Len(t.message.instructions) :
        LET instruction == t.message.instructions[k] IN
        /\ instruction.program_id_index < Len(t.message.account_keys)
        /\ system_program_check_id(
               t.message.account_keys[instruction.program_id_index + 1])
        /\ is_advance_nonce_instruction_data(instruction.data)

\* VersionedTransaction::uses_durable_nonce: the call at the marker index,
\* if there is one, kept if its program id is a static key, the system
\* program's, and its data begins as an advance-nonce instruction
uses_durable_nonce(t) ==
    /\ NONCED_TX_MARKER_IX_INDEX < Len(t.message.instructions)
    /\ LET instruction ==
               t.message.instructions[NONCED_TX_MARKER_IX_INDEX + 1] IN
       /\ instruction.program_id_index < Len(t.message.account_keys)
       /\ system_program_check_id(
              t.message.account_keys[instruction.program_id_index + 1])
       /\ is_advance_nonce_instruction_data(instruction.data)

\* instruction data: none, too short, the advance-nonce bytes, the same
\* followed by one more, a nonce withdrawal, a transfer
NonceCallData ==
    {<<>>, <<4, 0, 0>>, <<4, 0, 0, 0>>, <<4, 0, 0, 0, 9>>, <<5, 0, 0, 0>>,
     <<2, 0, 0, 0, 42>>}

\* MaxNonceKeys as a program id index is outside every key table
NonceCalls ==
    [program_id_index : 0..MaxNonceKeys, accounts : {<<>>},
     data : NonceCallData]

NonceMessages ==
    [header : {[num_required_signatures |-> 0,
                num_readonly_signed_accounts |-> 0,
                num_readonly_unsigned_accounts |-> 0]},
     account_keys : SeqUpTo({SYSTEM_PROGRAM_ID, 1}, MaxNonceKeys),
     recent_blockhash : {0},
     instructions : SeqUpTo(NonceCalls, MaxNonceCalls)]

InitNonce ==
    /\ message \in NonceMessages
    /\ msg_result = NoResult
    /\ keypairs = <<>>
    /\ tx = [signatures |-> <<>>, message |-> message]
    /\ tx_result = NoResult
    /\ AltIdle
    /\ SysvarIdle
    /\ CompileIdle
    /\ LoaderIdle

\* tx.uses_durable_nonce()
UsesDurableNonce ==
    /\ tx_result = NoResult
    /\ tx_result' = [op |-> "uses_durable_nonce",
                     value |-> uses_durable_nonce(tx)]
    /\ UNCHANGED <<message, msg_result, keypairs, tx, alt_vars,
                   sysvar_vars, compile_vars, loader_vars>>

NextNonce == UsesDurableNonce

SpecNonce == InitNonce /\ [][NextNonce]_vars

\* call k (0-based) of the transaction is an advance-nonce call of the
\* system program
AdvanceNonceCallAt(t, k) ==
    /\ k < Len(t.message.instructions)
    /\ LET call == t.message.instructions[k + 1]
           keys == t.message.account_keys
       IN  /\ call.program_id_index < Len(keys)
           /\ keys[call.program_id_index + 1] = SYSTEM_PROGRAM_ID
           /\ Len(call.data) >= 4
           /\ call.data[1] = 4
           /\ call.data[2] = 0
           /\ call.data[3] = 0
           /\ call.data[4] = 0

(***************************************************************************)
(* C17: uses_durable_nonce() is true exactly when the transaction has a    *)
(* call at index 0 whose program_id_index names a static key equal to the  *)
(* system program id and whose data is at least 4 bytes long and begins    *)
(* with 4, 0, 0, 0.  So it is false without calls, with a first call whose *)
(* program_id_index is outside the static keys, with a first call that is  *)
(* another system instruction, and with an advance-nonce call at index 1   *)
(* or later only.                                                          *)
(***************************************************************************)
C17_UsesDurableNonce ==
    tx_result.op = "uses_durable_nonce" =>
        /\ tx_result.value = AdvanceNonceCallAt(tx, 0)
        /\ Len(tx.message.instructions) = 0 => ~tx_result.value
        /\ (/\ Len(tx.message.instructions) > 0
            /\ tx.message.instructions[1].program_id_index
                   >= Len(tx.message.account_keys))
           => ~tx_result.value
        /\ (/\ Len(tx.message.instructions) > 0
            /\ tx.message.instructions[1].data \in
                   {<<5, 0, 0, 0>>, <<2, 0, 0, 0, 42>>})
           => ~tx_result.value
        /\ (/\ ~AdvanceNonceCallAt(tx, 0)
            /\ \E k \in 1..MaxNonceCalls : AdvanceNonceCallAt(tx, k))
           => ~tx_result.value

\* the first call advances a nonce: the system program is the second key
\* and the data goes on after the four bytes
C17_Witness ==
    /\ tx_result.op = "uses_durable_nonce"
    /\ tx_result.value
    /\ tx.message.account_keys = <<1, SYSTEM_PROGRAM_ID>>
    /\ tx.message.instructions[1].program_id_index = 1
    /\ tx.message.instructions[1].data = <<4, 0, 0, 0, 9>>

\* the same call, second, after a transfer
C17_NonceCallSecond ==
    /\ tx_result.op = "uses_durable_nonce"
    /\ ~tx_result.value
    /\ Len(tx.message.instructions) = 2
    /\ tx.message.instructions[1].data = <<2, 0, 0, 0, 42>>
    /\ AdvanceNonceCallAt(tx, 1)

(***************************************************************************)
(* Message compilation (program/src/message_inner/legacy.rs).  A call      *)
(* descriptor is a program id, a list of accounts (address, is_signer,     *)
(* is_writable) and data; addresses are numbers.  The key compiler         *)
(* (CompiledKeys) is described by the specification: the referenced        *)
(* addresses, each once, the payer first, then writable signers, readonly  *)
(* signers, writable non-signers and readonly non-signers, an address      *)
(* being a signer (writable) when it is the payer or some call marks it    *)
(* so; within a region the addresses are in ascending order.               *)
(***************************************************************************)
MaxDescriptors == 2     \* most call descriptors of a list to compile

U8_MAX == 255

\* Option<&Pubkey>::None
NoPayer == -1

\* the accounts of all the calls
AccountMetas(instrs) ==
    UNION {{instrs[k].accounts[j] : j \in 1..Len(instrs[k].accounts)} :
              k \in 1..Len(instrs)}

compile_every_call_marks(instrs, fee_payer) ==
    LET program_ids == {instrs[k].program_id : k \in 1..Len(instrs)}
        metas == AccountMetas(instrs)
        keys == program_ids \cup {m.pubkey : m \in metas}
                \cup (IF fee_payer = NoPayer THEN {} ELSE {fee_payer})
    IN  [payer |-> fee_payer,
         key_meta_map |->
            [key \in keys |->
                [is_signer |-> \/ key = fee_payer
                               \/ /\ \E m \in metas : m.pubkey = key
                                  /\ \A m \in metas :
                                         m.pubkey = key => m.is_signer,
                 is_writable |-> \/ key = fee_payer
                                 \/ /\ \E m \in metas : m.pubkey = key
                                    /\ \A m \in metas :
                                           m.pubkey = key => m.is_writable,
                 is_invoked |-> key \in program_ids]]]

\* CompiledKeys::compile: what is asked of every referenced address
compile(instrs, fee_payer) ==
    LET program_ids == {instrs[k].program_id : k \in 1..Len(instrs)}
        metas == AccountMetas(instrs)
        keys == program_ids \cup {m.pubkey : m \in metas}
                \cup (IF fee_payer = NoPayer THEN {} ELSE {fee_payer})
    IN  [payer |-> fee_payer,
         key_meta_map |->
            [key \in keys |->
                [is_signer |-> \/ key = fee_payer
                               \/ \E m \in metas :
                                      m.pubkey = key /\ m.is_signer,
                 is_writable |-> \/ key = fee_payer
                                 \/ \E m \in metas :
                                        m.pubkey = key /\ m.is_writable,
                 is_invoked |-> key \in program_ids]]]

\* the addresses of a set (numbers from 0 on) in ascending order
Ascending(S) ==
    IF S = {} THEN <<>>
    ELSE LET greatest == CHOOSE x \in S : \A y \in S : y <= x
         IN  SelectSeq([i \in 1..(greatest + 1) |-> i - 1], LAMBDA x : x \in S)

CompileOk(header, account_keys) ==
    [ok |-> TRUE, header |-> header, account_keys |-> account_keys]
CompileErr == [ok |-> FALSE, value |-> "AccountIndexOverflow"]

try_into_message_components_unchecked(compiled_keys) ==
    LET map == compiled_keys.key_meta_map
        rest == DOMAIN map \ {compiled_keys.payer}
        Region(s, w) ==
            Ascending({key \in rest : map[key].is_signer = s
                                      /\ map[key].is_writable = w})
        writable_signer_keys ==
            (IF compiled_keys.payer = NoPayer THEN <<>>
             ELSE <<compiled_keys.payer>>) \o Region(TRUE, TRUE)
        signers_len == Len(writable_signer_keys) + Len(Region(TRUE, FALSE))
    IN  CompileOk(
            [num_required_signatures |-> signers_len % (U8_MAX + 1),
             num_readonly_signed_accounts |->
                 Len(Region(TRUE, FALSE)) % (U8_MAX + 1),
             num_readonly_unsigned_accounts |->
                 Len(Region(FALSE, FALSE)) % (U8_MAX + 1)],
            writable_signer_keys \o Region(TRUE, FALSE)
            \o Region(FALSE, TRUE) \o Region(FALSE, FALSE))

\* CompiledKeys::try_into_message_components: the header and the key
\* table, or an error when the keys or a count of the header overflow 8 bits
try_into_message_components(compiled_keys) ==
    LET map == compiled_keys.key_meta_map
        rest == DOMAIN map \ {compiled_keys.payer}
        Region(s, w) ==
            Ascending({key \in rest : map[key].is_signer = s
                                      /\ map[key].is_writable = w})
        writable_signer_keys ==
            (IF compiled_keys.payer = NoPayer THEN <<>>
             ELSE <<compiled_keys.payer>>) \o Region(TRUE, TRUE)
        signers_len == Len(writable_signer_keys) + Len(Region(TRUE, FALSE))
    IN  IF \/ Cardinality(DOMAIN map) > U8_MAX + 1
           \/ signers_len > U8_MAX
           \/ Len(Region(TRUE, FALSE)) > U8_MAX
           \/ Len(Region(FALSE, FALSE)) > U8_MAX
        THEN CompileErr
        ELSE CompileOk(
                 [num_required_signatures |-> signers_len,
                  num_readonly_signed_accounts |-> Len(Region(TRUE, FALSE)),
                  num_readonly_unsigned_accounts |->
                      Len(Region(FALSE, FALSE))],
                 writable_signer_keys \o Region(TRUE, FALSE)
                 \o Region(FALSE, TRUE) \o Region(FALSE, FALSE))

\* a plausible slip: the index counted from one
position_as_u8_one_based(keys, key) == position(keys, key) % (U8_MAX + 1)

\* position: keys.iter().position(|k| k == key).unwrap() as u8
position_as_u8(keys, key) == (position(keys, key) - 1) % (U8_MAX + 1)

\* a plausible slip: the data bytes not carried over
compile_instruction_without_data(ix, keys) ==
    [program_id_index |-> position_as_u8(keys, ix.program_id),
     data |-> <<>>,
     accounts |-> [j \in 1..Len(ix.accounts) |->
                      position_as_u8(keys, ix.accounts[j].pubkey)]]

\* compile_instruction
compile_instruction(ix, keys) ==
    [program_id_index |-> position_as_u8(keys, ix.program_id),
     data |-> ix.data,
     accounts |-> [j \in 1..Len(ix.accounts) |->
                      position_as_u8(keys, ix.accounts[j].pubkey)]]

\* compile_instructions
compile_instructions(ixs, keys) ==
    [k \in 1..Len(ixs) |-> compile_instruction(ixs[k], keys)]

\* Message::new_with_compiled_instructions
new_with_compiled_instructions(nrs, nros, nru, account_keys, blockhash, instrs) ==
    [header |-> [num_required_signatures |-> nrs,
                 num_readonly_signed_accounts |-> nros,
                 num_readonly_unsigned_accounts |-> nru],
     account_keys |-> account_keys,
     recent_blockhash |-> blockhash,
     instructions |-> instrs]

MessageOk(m) == [ok |-> TRUE, value |-> m]
MessagePanic == [ok |-> FALSE, value |-> "panic"]

\* Message::new_with_blockhash: the message, or the abort of
\* expect("overflow when compiling message keys")
new_with_blockhash(instrs, fee_payer, blockhash) ==
    LET components == try_into_message_components(compile(instrs, fee_payer))
    IN  IF ~components.ok THEN MessagePanic
        ELSE MessageOk(new_with_compiled_instructions(
                 components.header.num_required_signatures,
                 components.header.num_readonly_signed_accounts,
                 components.header.num_readonly_unsigned_accounts,
                 components.account_keys,
                 blockhash,
                 compile_instructions(instrs, components.account_keys)))

\* Message::new: the default blockhash
message_new(instrs, fee_payer) == new_with_blockhash(instrs, fee_payer, 0)

\* an account of a call descriptor
MetaOf(key, signer, writable) ==
    [pubkey |-> key, is_signer |-> signer, is_writable |-> writable]

\* the account lists of the calls to compile: none, one account of address
\* 1 or 2 with each combination of the flags, the same address twice with
\* different flags, two addresses, an account repeated
SampleAccountLists ==
    {<<>>}
    \cup {<<MetaOf(key, s, w)>> : key \in {1, 2}, s \in BOOLEAN, w \in BOOLEAN}
    \cup {<<MetaOf(1, TRUE, FALSE), MetaOf(1, FALSE, TRUE)>>,
          <<MetaOf(1, FALSE, FALSE), MetaOf(2, TRUE, TRUE)>>,
          <<MetaOf(2, FALSE, TRUE), MetaOf(2, FALSE, TRUE)>>}

\* the calls to compile: address 2 is a program and an account, 3 a program
Descriptors ==
    [program_id : {2, 3}, accounts : SampleAccountLists, data : {<<>>, <<7>>}]

DescriptorLists == SeqUpTo(Descriptors, MaxDescriptors)

\* the payers: none, an account, a program, an address no call names
Payers == {NoPayer, 1, 2, 4}

\* one call of program 3 with n writable accounts, 101 to 100 + n
WideDescriptor(n) ==
    [program_id |-> 3,
     accounts |-> [j \in 1..n |-> MetaOf(100 + j, FALSE, TRUE)],
     data |-> <<7>>]

\* with payer 4, the largest list whose keys fit 8-bit indexes, and the
\* smallest whose keys do not
WideLists == {<<WideDescriptor(U8_MAX - 1)>>, <<WideDescriptor(U8_MAX)>>}

InitCompile ==
    /\ MsgIdle
    /\ TxIdle
    /\ AltIdle
    /\ SysvarIdle
    /\ LoaderIdle
    /\ reserved_account_keys = [op |-> "none"]
    /\ \/ call_list \in DescriptorLists /\ payer \in Payers
       \/ call_list \in WideLists /\ payer = 4

\* Message::new(instructions, payer)
MessageNew ==
    /\ msg_result = NoResult
    /\ LET r == message_new(call_list, payer) IN
         msg_result' = [op |-> "new", ok |-> r.ok, value |-> r.value]
    /\ UNCHANGED <<message, tx_vars, alt_vars, sysvar_vars, compile_vars, loader_vars>>

NextCompile == MessageNew

SpecCompile == InitCompile /\ [][NextCompile]_vars

\* what the calls and the payer ask of an address
AskedSigner(key) ==
    key = payer \/ \E m \in AccountMetas(call_list) : m.pubkey = key /\ m.is_signer
AskedWritable(key) ==
    key = payer \/ \E m \in AccountMetas(call_list) : m.pubkey = key /\ m.is_writable

\* the region of an address: 0 writable signer, 1 readonly signer,
\* 2 writable non-signer, 3 readonly non-signer
RegionOf(key) ==
    (IF AskedSigner(key) THEN 0 ELSE 2) + (IF AskedWritable(key) THEN 0 ELSE 1)

\* the addresses the calls and the payer name
Referenced ==
    {call_list[k].program_id : k \in 1..Len(call_list)}
    \cup {m.pubkey : m \in AccountMetas(call_list)}
    \cup {payer}

(***************************************************************************)
(* C18: for every list of call descriptors and every designated payer,     *)
(* the key table of the message compiled by Message::new holds each        *)
(* referenced address (program ids, accounts, payer) exactly once, the     *)
(* payer at index 0, writable signers before readonly signers before       *)
(* writable non-signers before readonly non-signers (no key is followed by *)
(* one of an earlier region), an address being a signer (writable) iff it  *)
(* is the payer or some call marks it so; the header counts are the sizes  *)
(* of these regions.                                                       *)
(***************************************************************************)
C18_CompiledKeyTable ==
    (msg_result.op = "new" /\ msg_result.ok /\ payer # NoPayer) =>
        LET keys == msg_result.value.account_keys
            header == msg_result.value.header
            region == [key \in Referenced |-> RegionOf(key)]
            InRegion(r) == {key \in Referenced : region[key] = r}
        IN
        /\ {keys[i] : i \in 1..Len(keys)} = Referenced
        /\ Len(keys) = Cardinality(Referenced)
        /\ keys[1] = payer
        /\ \A i \in 1..(Len(keys) - 1) : region[keys[i]] <= region[keys[i + 1]]
        /\ header.num_required_signatures =
               Cardinality(InRegion(0)) + Cardinality(InRegion(1))
        /\ header.num_readonly_signed_accounts = Cardinality(InRegion(1))
        /\ header.num_readonly_unsigned_accounts = Cardinality(InRegion(3))

\* four addresses, one in each region: the payer 4, the readonly signer 1,
\* the writable program 2 and its caller 3
C18_Witness ==
    /\ msg_result.op = "new"
    /\ msg_result.ok
    /\ payer = 4
    /\ msg_result.value.account_keys = <<4, 1, 2, 3>>
    /\ msg_result.value.header.num_required_signatures = 2
    /\ msg_result.value.header.num_readonly_signed_accounts = 1
    /\ msg_result.value.header.num_readonly_unsigned_accounts = 1
    /\ Len(call_list) = 2

(***************************************************************************)
(* C19: compiling a message aborts whenever the calls and the payer name   *)
(* more addresses than 8-bit indexes can tell apart, and a message that is *)
(* returned has no truncated index: every compiled program-id index and    *)
(* account index points at the key the call named.                         *)
(***************************************************************************)
C19_NoTruncatedIndex ==
    msg_result.op = "new" =>
        /\ Cardinality(Referenced \ {NoPayer}) > U8_MAX + 1 =>
               (~msg_result.ok /\ msg_result.value = MessagePanic.value)
        /\ msg_result.ok =>
               LET keys == msg_result.value.account_keys
                   compiled == msg_result.value.instructions
               IN  \A k \in 1..Len(call_list) :
                     /\ compiled[k].program_id_index < Len(keys)
                     /\ keys[compiled[k].program_id_index + 1] =
                            call_list[k].program_id
                     /\ \A j \in 1..Len(call_list[k].accounts) :
                          /\ compiled[k].accounts[j] < Len(keys)
                          /\ keys[compiled[k].accounts[j] + 1] =
                                 call_list[k].accounts[j].pubkey

\* 257 addresses: the compilation aborts
C19_Witness ==
    /\ msg_result.op = "new"
    /\ Cardinality(Referenced) = U8_MAX + 2
    /\ ~msg_result.ok
    /\ msg_result.value = MessagePanic.value

\* 256 addresses: the program id is compiled to index 255
C19_LastIndex ==
    /\ msg_result.op = "new"
    /\ msg_result.ok
    /\ Len(msg_result.value.account_keys) = U8_MAX + 1
    /\ msg_result.value.instructions[1].program_id_index = U8_MAX

(***************************************************************************)
(* C23: compilation preserves every call: the compiled message has one     *)
(* compiled call per call descriptor, in the same order, and for each call *)
(* the key at program_id_index is the call's program id, the key at        *)
(* accounts[j] is the address of the call's j-th account (same count and   *)
(* order, repeats kept), and the data bytes are identical.                 *)
(***************************************************************************)
C23_CallsPreserved ==
    (msg_result.op = "new" /\ msg_result.ok) =>
        LET keys == msg_result.value.account_keys
            compiled == msg_result.value.instructions
            KeyAtIndex(i) == IF i < Len(keys) THEN keys[i + 1] ELSE NoPayer
        IN  /\ Len(compiled) = Len(call_list)
            /\ \A k \in 1..Len(call_list) :
                 /\ KeyAtIndex(compiled[k].program_id_index) =
                        call_list[k].program_id
                 /\ Len(compiled[k].accounts) = Len(call_list[k].accounts)
                 /\ \A j \in 1..Len(call_list[k].accounts) :
                        KeyAtIndex(compiled[k].accounts[j]) =
                            call_list[k].accounts[j].pubkey
                 /\ compiled[k].data = call_list[k].data

\* two calls of different programs; the second names address 2 twice and
\* carries a data byte, the first carries none
C23_Witness ==
    /\ msg_result.op = "new"
    /\ msg_result.ok
    /\ Len(call_list) = 2
    /\ call_list[1].program_id = 3
    /\ call_list[1].data = <<>>
    /\ call_list[2].program_id = 2
    /\ Len(call_list[2].accounts) = 2
    /\ call_list[2].accounts[1].pubkey = 2
    /\ call_list[2].accounts[2].pubkey = 2
    /\ call_list[2].data = <<7>>
    /\ msg_result.value.instructions[2].data = <<7>>
    /\ msg_result.value.instructions[2].accounts[1] =
           msg_result.value.instructions[2].accounts[2]
    /\ msg_result.value.instructions[1].program_id_index #
           msg_result.value.instructions[2].program_id_index

(***************************************************************************)
(* Message::is_maybe_writable (program/src/message_inner/legacy.rs)        *)
(***************************************************************************)
MaxWritableKeys == 2    \* longest key table of a message asked for writability
MaxWritableCalls == 2   \* most compiled calls of such a message

BPF_LOADER_UPGRADEABLE_ID == 202

NoReservedKeys == [op |-> "none"]
SomeReservedKeys(S) == [op |-> "some", keys |-> S]

\* u8::try_from(key_index) fails for an index above 255
is_key_called_as_program(m, key_index) ==
    IF key_index <= U8_MAX
    THEN \E k \in 1..Len(m.instructions) :
             m.instructions[k].program_id_index = key_index
    ELSE FALSE

is_upgradeable_loader_present(m) ==
    \E j \in 1..Len(m.account_keys) :
        m.account_keys[j] = BPF_LOADER_UPGRADEABLE_ID

\* a plausible slip: the upgradeable-loader carve-out left out
demote_program_id_without_carve_out(m, i) ==
    is_key_called_as_program(m, i)

demote_program_id(m, i) ==
    is_key_called_as_program(m, i) /\ ~is_upgradeable_loader_present(m)

\* false unless a set was supplied and account_keys.get(key_index) is Some
is_account_maybe_reserved(m, key_index, reserved) ==
    IF reserved.op = "some"
    THEN IF key_index < Len(m.account_keys)
         THEN m.account_keys[key_index + 1] \in reserved.keys
         ELSE FALSE
    ELSE FALSE

is_maybe_writable(m, i, reserved) ==
    /\ is_writable_index(m, i)
    /\ ~is_account_maybe_reserved(m, i, reserved)
    /\ ~demote_program_id(m, i)

\* the inputs: unsanitized messages over an ordinary key and the loader's
\* (a key may repeat, a header may exceed the table), calls that name a
\* program index within or one past the table, and every reserved set
WritableKeys == {1, BPF_LOADER_UPGRADEABLE_ID}

WritableMessages ==
    [header : [num_required_signatures : 0..MaxWritableKeys,
               num_readonly_signed_accounts : 0..MaxWritableKeys,
               num_readonly_unsigned_accounts : 0..MaxWritableKeys],
     account_keys : SeqUpTo(WritableKeys, MaxWritableKeys),
     recent_blockhash : {0},
     instructions : SeqUpTo([program_id_index : 0..MaxWritableKeys,
                             accounts : {<<>>}],
                            MaxWritableCalls)]

\* a table of 257 keys whose last index, 256, does not fit a u8; the one
\* call invokes index 0 or index 255
WideMessages ==
    {[header |-> [num_required_signatures |-> 1,
                  num_readonly_signed_accounts |-> 0,
                  num_readonly_unsigned_accounts |-> 0],
      account_keys |-> [j \in 1..(U8_MAX + 2) |-> last],
      recent_blockhash |-> 0,
      instructions |-> <<[program_id_index |-> p, accounts |-> <<>>]>>] :
        last \in WritableKeys, p \in {0, U8_MAX}}

ReservedKeySets ==
    {NoReservedKeys} \cup {SomeReservedKeys(S) : S \in SUBSET WritableKeys}

InitWritable ==
    /\ message \in WritableMessages \cup WideMessages
    /\ msg_result = NoResult
    /\ reserved_account_keys \in ReservedKeySets
    /\ call_list = <<>>
    /\ payer = 0
    /\ TxIdle
    /\ AltIdle
    /\ SysvarIdle
    /\ LoaderIdle

\* message.is_maybe_writable(i, reserved_account_keys) for every index of
\* the key table and the two past its end
IsMaybeWritable ==
    /\ msg_result = NoResult
    /\ msg_result' =
         [op |-> "is_maybe_writable",
          value |-> [i \in 0..(Len(message.account_keys) + 1) |->
                        is_maybe_writable(message, i, reserved_account_keys)]]
    /\ UNCHANGED <<message, tx_vars, alt_vars, sysvar_vars, compile_vars, loader_vars>>

NextWritable == IsMaybeWritable

SpecWritable == InitWritable /\ [][NextWritable]_vars

\* the key at index i is in the supplied set; no set, or no key at i, means
\* nothing is reserved
ReservedAt(i) ==
    /\ reserved_account_keys # NoReservedKeys
    /\ i < Len(message.account_keys)
    /\ message.account_keys[i + 1] \in reserved_account_keys.keys

\* some compiled call has program_id_index = i and the loader's address is
\* not among the account keys
DemotedAt(i) ==
    /\ \E k \in 1..Len(message.instructions) :
           message.instructions[k].program_id_index = i
    /\ BPF_LOADER_UPGRADEABLE_ID \notin
           {message.account_keys[j] : j \in 1..Len(message.account_keys)}

(***************************************************************************)
(* C20: is_maybe_writable(i, reserved) is true exactly when                *)
(* is_writable_index(i) holds, the key at index i is not in the supplied   *)
(* reserved set (no set supplied: nothing is reserved), and index i is not *)
(* demoted, where i is demoted exactly when some compiled call has         *)
(* program_id_index = i and the upgradeable loader's address is not among  *)
(* the account keys.                                                       *)
(***************************************************************************)
C20_IsMaybeWritable ==
    msg_result.op = "is_maybe_writable" =>
        \A i \in DOMAIN msg_result.value :
            msg_result.value[i] <=>
                /\ is_writable_index(message, i)
                /\ ~ReservedAt(i)
                /\ ~DemotedAt(i)

\* index 1 is writable by the header and not reserved, and is read-only
\* only because a call invokes it while the loader is absent
C20_Witness ==
    /\ msg_result.op = "is_maybe_writable"
    /\ message.account_keys = <<1, 1>>
    /\ message.header.num_required_signatures = 1
    /\ message.header.num_readonly_signed_accounts = 0
    /\ message.header.num_readonly_unsigned_accounts = 0
    /\ message.instructions = <<[program_id_index |-> 1, accounts |-> <<>>]>>
    /\ reserved_account_keys = SomeReservedKeys({})
    /\ msg_result.value[0]
    /\ ~msg_result.value[1]

\* the same invoked index stays writable when the loader is among the keys
C20_LoaderPresent ==
    /\ msg_result.op = "is_maybe_writable"
    /\ message.account_keys = <<BPF_LOADER_UPGRADEABLE_ID, 1>>
    /\ message.instructions = <<[program_id_index |-> 1, accounts |-> <<>>]>>
    /\ reserved_account_keys = NoReservedKeys
    /\ msg_result.value[1]

\* a writable index whose key is in the supplied set is not writable
C20_Reserved ==
    /\ msg_result.op = "is_maybe_writable"
    /\ message.instructions = <<>>
    /\ is_writable_index(message, 0)
    /\ reserved_account_keys = SomeReservedKeys({1})
    /\ message.account_keys = <<1>>
    /\ ~msg_result.value[0]

\* index 256 of a 257-key table is writable although a call invokes index 0
C20_BeyondU8 ==
    /\ msg_result.op = "is_maybe_writable"
    /\ Len(message.account_keys) = U8_MAX + 2
    /\ message.instructions[1].program_id_index = 0
    /\ msg_result.value[U8_MAX + 1]
    /\ ~msg_result.value[0]

(***************************************************************************)
(* SimpleAddressLoader (sdk/src/program/message_inner/address_loader.rs)   *)
(***************************************************************************)
MaxLoaded == 1          \* most addresses in either list of a LoadedAddresses
MaxLookups == 2         \* most lookup references handed to load_addresses

Disabled == [op |-> "Disabled"]
Enabled(loaded_addresses) ==
    [op |-> "Enabled", loaded_addresses |-> loaded_addresses]

AddressLoaderError_Disabled == "Disabled"

\* a plausible slip: nothing to resolve, so the loader is not consulted
load_addresses_empty_needs_no_loader(self, lookup_list) ==
    IF self.op = "Disabled"
    THEN IF lookup_list = <<>>
         THEN [ok |-> TRUE, value |-> [writable |-> <<>>, readonly |-> <<>>]]
         ELSE [ok |-> FALSE, value |-> AddressLoaderError_Disabled]
    ELSE [ok |-> TRUE, value |-> self.loaded_addresses]

\* impl AddressLoader for SimpleAddressLoader: _lookups is not read
load_addresses(self, lookup_list) ==
    IF self.op = "Disabled"
    THEN [ok |-> FALSE, value |-> AddressLoaderError_Disabled]
    ELSE [ok |-> TRUE, value |-> self.loaded_addresses]

\* the inputs: both variants, every LoadedAddresses within the bound, and
\* every list of references (to either of two tables, with and without
\* writable and readonly indexes), the empty list included
LoaderKeys == {1, 2}

LoadedAddressesSet ==
    [writable : SeqUpTo(LoaderKeys, MaxLoaded),
     readonly : SeqUpTo(LoaderKeys, MaxLoaded)]

AddressLoaders == {Disabled} \cup {Enabled(la) : la \in LoadedAddressesSet}

MessageAddressTableLookups ==
    [account_key : LoaderKeys,
     writable_indexes : {<<>>, <<0>>},
     readonly_indexes : {<<>>, <<1>>}]

InitLoader ==
    /\ address_loader \in AddressLoaders
    /\ lookups \in SeqUpTo(MessageAddressTableLookups, MaxLookups)
    /\ load_result = NoResult
    /\ MsgIdle
    /\ TxIdle
    /\ AltIdle
    /\ SysvarIdle
    /\ CompileIdle

\* address_loader.load_addresses(&lookups)
LoadAddresses ==
    /\ load_result = NoResult
    /\ LET r == load_addresses(address_loader, lookups) IN
         load_result' = [op |-> "load_addresses", ok |-> r.ok, value |-> r.value]
    /\ UNCHANGED <<msg_vars, tx_vars, alt_vars, sysvar_vars, compile_vars,
                   address_loader, lookups>>

NextLoader == LoadAddresses

SpecLoader == InitLoader /\ [][NextLoader]_vars

(***************************************************************************)
(* C21: load_addresses of the Disabled loader fails with the Disabled      *)
(* error for every list of lookup references, the empty list included;     *)
(* load_addresses of an Enabled loader returns exactly the LoadedAddresses *)
(* it was built with, whatever references are passed.                      *)
(***************************************************************************)
C21_SimpleAddressLoader ==
    load_result.op = "load_addresses" =>
        /\ address_loader = Disabled =>
               /\ ~load_result.ok
               /\ load_result.value = AddressLoaderError_Disabled
        /\ address_loader # Disabled =>
               /\ load_result.ok
               /\ load_result.value = address_loader.loaded_addresses

\* the Disabled loader asked to resolve nothing still fails
C21_Witness ==
    /\ load_result.op = "load_addresses"
    /\ address_loader = Disabled
    /\ lookups = <<>>
    /\ ~load_result.ok

\* an Enabled loader returns its addresses for references that name another
\* table and other indexes
C21_EnabledIgnoresLookups ==
    /\ load_result.op = "load_addresses"
    /\ address_loader = Enabled([writable |-> <<1>>, readonly |-> <<>>])
    /\ Len(lookups) = 2
    /\ lookups[1].account_key = 2
    /\ load_result.ok
    /\ load_result.value = [writable |-> <<1>>, readonly |-> <<>>]

(***************************************************************************)
(* The layout of the buffer construct_instructions_data builds             *)
(***************************************************************************)
MaxLayoutCalls == 2     \* most calls of a list whose buffer is laid out

\* calls with no, one and two accounts, every combination of the two flags,
\* and no and two bytes of data
LayoutAccountLists ==
    {<<>>} \cup {<<AccountMetaOf(1, s, w)>> : s, w \in BOOLEAN}
    \cup {<<AccountMetaOf(1, TRUE, FALSE), AccountMetaOf(3, FALSE, TRUE)>>}

LayoutInstructions ==
    {InstructionOf(2, accounts, data) :
        accounts \in LayoutAccountLists, data \in {<<>>, <<7, 255>>}}

InitLayout ==
    /\ MsgIdle
    /\ TxIdle
    /\ AltIdle
    /\ CompileIdle
    /\ LoaderIdle
    /\ sysvar_result = NoResult
    /\ account = [op |-> "none"]
    /\ sysvar_source \in SeqUpTo(LayoutInstructions, MaxLayoutCalls)
                         \cup LongLists

\* construct_instructions_data(&instructions), stored as the account's data
ConstructInstructionsData ==
    /\ sysvar_result = NoResult
    /\ account' = [key |-> SysvarInstructionsId,
                   data |-> construct_instructions_data(sysvar_source)]
    /\ sysvar_result' = [op |-> "construct_instructions_data"]
    /\ UNCHANGED <<msg_vars, tx_vars, alt_vars, compile_vars, loader_vars,
                   sysvar_source>>

NextLayout == ConstructInstructionsData

SpecLayout == InitLayout /\ [][NextLayout]_vars

\* the bytes [from, from + n) of the buffer (0-based, as the layout counts)
BytesAt(data, from, n) == SubSeq(data, from + 1, from + n)

\* two bytes of the buffer read as a little-endian number
NumberAt(data, from) == data[from + 1] + 256 * data[from + 2]

\* the block the layout prescribes for a call: the account count, a flags
\* byte (bit 0 is-signer, bit 1 is-writable, the rest zero) and the address
\* of each account, the program id, the data length, the data
RECURSIVE LayoutAccounts(_, _)
LayoutAccounts(accounts, k) ==
    IF k > Len(accounts) THEN <<>>
    ELSE << (IF accounts[k].is_signer THEN 1 ELSE 0)
            + (IF accounts[k].is_writable THEN 2 ELSE 0) >>
         \o accounts[k].pubkey \o LayoutAccounts(accounts, k + 1)

LayoutBlock(instruction) ==
    << Len(instruction.accounts) % 256, Len(instruction.accounts) \div 256 >>
    \o LayoutAccounts(instruction.accounts, 1)
    \o instruction.program_id
    \o << Len(instruction.data) % 256, Len(instruction.data) \div 256 >>
    \o instruction.data

\* the count, the contiguous blocks in call order from byte 2 + 2N on and
\* the two zero bytes at the end
LayoutOfBlocks(data, instrs) ==
    LET N == Len(instrs) IN
    /\ NumberAt(data, 0) = N
    /\ \A i \in 0..(N - 1) :
         BytesAt(data, BlockStart(instrs, i), BlockSize(instrs[i + 1]))
             = LayoutBlock(instrs[i + 1])
    /\ Len(data) = BlockStart(instrs, N) + 2
    /\ BytesAt(data, Len(data) - 2, 2) = <<0, 0>>

\* offset-table entry i holds the position at which block i begins
OffsetEntryIsStart(data, instrs, i) ==
    NumberAt(data, 2 + 2 * i) = BlockStart(instrs, i)

(***************************************************************************)
(* C22, as stated: in the buffer built for N <= 65535 calls, bytes [0,2)   *)
(* hold N little-endian, offset-table entry i holds the actual byte        *)
(* position at which block i begins, the blocks are contiguous in call     *)
(* order from byte 2 + 2N on, each laid out as the account count, the      *)
(* flags byte and address of each account, the program id, the data length *)
(* and the data, and the final two bytes are zero.                         *)
(***************************************************************************)
C22_LayoutEveryList ==
    (sysvar_result.op = "construct_instructions_data"
     /\ Len(sysvar_source) <= U16_MAX) =>
        /\ LayoutOfBlocks(account.data, sysvar_source)
        /\ \A i \in 0..(Len(sysvar_source) - 1) :
               OffsetEntryIsStart(account.data, sysvar_source, i)

(***************************************************************************)
(* C22, amended: the same layout, with offset-table entry i holding the    *)
(* byte position at which block i begins for every block that begins at a  *)
(* position a 16-bit entry can hold (at most 65535) and that position     *)
(* modulo 65536 for a block that begins later, in buffers whose calls have *)
(* at most 65535 accounts and at most 65535 data bytes each.               *)
(***************************************************************************)
C22_Layout ==
    (/\ sysvar_result.op = "construct_instructions_data"
     /\ Len(sysvar_source) <= U16_MAX
     /\ \A k \in 1..Len(sysvar_source) :
          /\ Len(sysvar_source[k].accounts) <= U16_MAX
          /\ Len(sysvar_source[k].data) <= U16_MAX) =>
        /\ LayoutOfBlocks(account.data, sysvar_source)
        /\ \A i \in 0..(Len(sysvar_source) - 1) :
               IF BlockStart(sysvar_source, i) <= U16_MAX
               THEN OffsetEntryIsStart(account.data, sysvar_source, i)
               ELSE NumberAt(account.data, 2 + 2 * i) =
                        BlockStart(sysvar_source, i) % (U16_MAX + 1)

\* two calls, the second with two accounts: its block begins at byte 44,
\* after one block of 38 bytes, and entry 1 of the offset table says so
C22_Witness ==
    /\ sysvar_result.op = "construct_instructions_data"
    /\ Len(sysvar_source) = 2
    /\ Len(sysvar_source[1].accounts) = 0
    /\ Len(sysvar_source[1].data) = 2
    /\ Len(sysvar_source[2].accounts) = 2
    /\ BytesAt(account.data, 0, 6) = <<2, 0, 6, 0, 44, 0>>
    /\ BytesAt(account.data, 44, 3) = <<2, 0, 1>>
    /\ BytesAt(account.data, 44 + 2 + 33, 1) = <<2>>

\* the second block begins at byte 65535, the last a 16-bit entry holds
C22_LastOffset ==
    /\ sysvar_result.op = "construct_instructions_data"
    /\ Len(sysvar_source) = 2
    /\ BlockStart(sysvar_source, 1) = U16_MAX
    /\ BytesAt(account.data, 4, 2) = <<255, 255>>

(***************************************************************************)
(* Message::has_duplicates (program/src/message_inner/legacy.rs)           *)
(***************************************************************************)
MaxDuplicateKeys == 4   \* longest key table searched for duplicates

\* self.account_keys[i..].contains(key), i 0-based
slice_from_contains(keys, i, key) ==
    \E j \in (i + 1)..Len(keys) : keys[j] = key

\* the loop `for i in 1..self.account_keys.len()`, from i on
RECURSIVE has_duplicates_from(_, _)
has_duplicates_from(keys, i) ==
    IF i >= Len(keys) THEN FALSE
    ELSE IF slice_from_contains(keys, i, keys[(i - 1) + 1]) THEN TRUE
    ELSE has_duplicates_from(keys, i + 1)

\* a plausible slip: each key compared with its successor only
has_duplicates_adjacent_only(m) ==
    \E i \in 1..(Len(m.account_keys) - 1) :
        m.account_keys[i + 1] = m.account_keys[i]

has_duplicates(m) == has_duplicates_from(m.account_keys, 1)

\* the inputs: every key table of up to MaxDuplicateKeys keys out of as many
\* addresses, so that the longest table exists with and without repeats
DuplicateKeyTables == SeqUpTo(1..MaxDuplicateKeys, MaxDuplicateKeys)

InitDuplicates ==
    /\ message \in {[EmptyMessage EXCEPT !.account_keys = keys] :
                       keys \in DuplicateKeyTables}
    /\ msg_result = NoResult
    /\ TxIdle
    /\ AltIdle
    /\ SysvarIdle
    /\ CompileIdle
    /\ LoaderIdle

\* message.has_duplicates()
HasDuplicates ==
    /\ msg_result = NoResult
    /\ msg_result' = [op |-> "has_duplicates", value |-> has_duplicates(message)]
    /\ UNCHANGED <<message, tx_vars, alt_vars, sysvar_vars, compile_vars,
                   loader_vars>>

NextDuplicates == HasDuplicates

SpecDuplicates == InitDuplicates /\ [][NextDuplicates]_vars

(***************************************************************************)
(* C24: has_duplicates() returns true exactly when some address occurs at  *)
(* two different positions of account_keys, for every table length (0 and  *)
(* 1 included) and for duplicates at any pair of positions, adjacent or    *)
(* not, the last two entries included.                                     *)
(***************************************************************************)
C24_HasDuplicates ==
    msg_result.op = "has_duplicates" =>
        (msg_result.value <=>
            \E a, b \in 1..Len(message.account_keys) :
                a # b /\ message.account_keys[a] = message.account_keys[b])

\* the only repeat is the first key at the last position
C24_Witness ==
    /\ msg_result.op = "has_duplicates"
    /\ message.account_keys = <<1, 2, 3, 1>>
    /\ msg_result.value

\* the only repeat is in the last two entries
C24_LastTwo ==
    /\ msg_result.op = "has_duplicates"
    /\ message.account_keys = <<1, 2, 3, 3>>
    /\ msg_result.value

\* tables of no key, of one key and of four different keys have none
C24_NoDuplicates ==
    /\ msg_result.op = "has_duplicates"
    /\ message.account_keys \in {<<>>, <<1>>, <<4, 3, 2, 1>>}
    /\ ~msg_result.value

(***************************************************************************)
(* The current-index cursor between decodes: the buffer is built once and  *)
(* the caller stores a current index before each executing call            *)
(***************************************************************************)
MaxStores == 2          \* most current indexes stored into one buffer

\* two calls, the second beginning at byte 65536, so that its offset entry
\* holds 0. Read from byte 0 the buffer is a block of two accounts whose
\* data length lies at bytes [100, 102), inside the first call's data; the
\* first call's data puts there the distance from byte 102 to the end of
\* the buffer, the cursor included
WrappedBlockLength == (U16_MAX + 1) + BlockSize(PaddedInstruction(0)) + 2 - 102

WrappedList ==
    LET n == (U16_MAX + 1) - 6 - BlockSize(PaddedInstruction(0))
        at == 100 - (6 + BlockSize(PaddedInstruction(0))) + 1
    IN  << InstructionOf(1, <<>>,
               [k \in 1..n |->
                   IF k = at THEN WrappedBlockLength % 256
                   ELSE IF k = at + 1 THEN WrappedBlockLength \div 256
                   ELSE 0]),
           PaddedInstruction(0) >>

InitCursor ==
    /\ MsgIdle
    /\ TxIdle
    /\ AltIdle
    /\ CompileIdle
    /\ LoaderIdle
    /\ sysvar_source \in SysvarInstructionLists \cup LongLists \cup {WrappedList}
    /\ account = [key |-> SysvarInstructionsId,
                  data |-> construct_instructions_data(sysvar_source)]
    /\ sysvar_result = [op |-> "built", stores |-> 0, last |-> 0]

\* store_current_index_checked(&mut data, instruction_index), once more
StoreCursor ==
    /\ sysvar_result.stores < MaxStores
    /\ \E instruction_index \in StoredIndexes :
         LET r == store_current_index_checked(account.data, instruction_index)
         IN  /\ r.result.ok
             /\ account' = [account EXCEPT !.data = r.data]
             /\ sysvar_result' = [op |-> "stored",
                                  stores |-> sysvar_result.stores + 1,
                                  last |-> instruction_index]
    /\ UNCHANGED <<msg_vars, tx_vars, alt_vars, compile_vars, loader_vars,
                   sysvar_source>>

NextCursor == StoreCursor

SpecCursor == InitCursor /\ [][NextCursor]_vars

\* decoding every index, one past the count included, gives what it gives
\* on the freshly built buffer
DecodesAsBuilt ==
    \A i \in 0..(Len(sysvar_source) + 1) :
        deserialize_instruction(i, account.data) =
            deserialize_instruction(i, construct_instructions_data(sysvar_source))

\* the current index read back is the last one stored, 0 if none was
CursorIsLastStored ==
    load_current_index(account.data) = SysvarOk(sysvar_result.last)

(***************************************************************************)
(* C25, as stated: for a buffer built by construct_instructions_data,      *)
(* after any sequence of store_current_index_checked calls with any        *)
(* values, decoding every instruction index returns the same result as on  *)
(* the freshly built buffer, and the value read back as current index is   *)
(* the last value stored (0 if none was stored).                           *)
(***************************************************************************)
C25_CursorOnlyEveryBuffer ==
    sysvar_result.op \in {"built", "stored"} =>
        /\ DecodesAsBuilt
        /\ CursorIsLastStored

(***************************************************************************)
(* C25, amended: after any sequence of stores the buffer is as built but   *)
(* for its last two bytes and the current index read back is the last      *)
(* value stored (0 if none was stored); and when every block offset,       *)
(* account count and data length of the encoding fits 16 bits, decoding    *)
(* every instruction index returns the same result as on the freshly built *)
(* buffer.                                                                 *)
(***************************************************************************)
C25_CursorOnly ==
    sysvar_result.op \in {"built", "stored"} =>
        /\ BuiltFrom(account.data, sysvar_source)
        /\ Len(account.data) =
               Len(construct_instructions_data(sysvar_source))
        /\ CursorIsLastStored
        /\ FitsU16(sysvar_source) => DecodesAsBuilt

\* two stores into a buffer of two calls; the second call, with accounts
\* and data, still decodes as encoded and the cursor reads 65535
C25_Witness ==
    /\ sysvar_result.op = "stored"
    /\ sysvar_result.stores = 2
    /\ sysvar_result.last = U16_MAX
    /\ Len(sysvar_source) = 2
    /\ FitsU16(sysvar_source)
    /\ Len(sysvar_source[2].accounts) = 2
    /\ LET r == deserialize_instruction(1, account.data) IN
           r.ok /\ SameInstruction(r.value, sysvar_source[2])
    /\ load_current_index(account.data) = SysvarOk(U16_MAX)

(***************************************************************************)
(* Lookups in a table of any metadata: the fields of AddressLookupTable    *)
(* and LookupTableMeta are public, so last_extended_slot_start_index need  *)
(* not be a length the address list ever had                               *)
(***************************************************************************)
AnyTables ==
    [meta : [deactivation_slot : DeactivationSlots,
             last_extended_slot : Slots,
             last_extended_slot_start_index : 0..(MaxAddresses + 1)],
     addresses : {[i \in 1..n |-> AddressAt(i)] : n \in 0..MaxAddresses}]

InitAnyTable ==
    /\ MsgIdle
    /\ TxIdle
    /\ table \in AnyTables
    /\ current_slot \in Slots
    /\ slot_hashes \in Histories
    /\ alt_result = NoResult
    /\ slot_start = [op |-> "none"]
    /\ SysvarIdle
    /\ CompileIdle
    /\ LoaderIdle

\* table.lookup_iter(current_slot, indexes, slot_hashes)
LookupIter ==
    /\ alt_result = NoResult
    /\ \E indexes \in ProbeLists :
         LET r == lookup_iter(table, current_slot, indexes, slot_hashes) IN
         alt_result' = [op |-> "lookup_iter", indexes |-> indexes,
                        ok |-> r.ok, value |-> r.value]
    /\ UNCHANGED <<msg_vars, tx_vars, table, current_slot, slot_hashes,
                   slot_start, sysvar_vars, compile_vars, loader_vars>>

NextAnyTable == GetActiveAddressesLen \/ LookupIter

SpecAnyTable == InitAnyTable /\ [][NextAnyTable]_vars

(***************************************************************************)
(* C27: for every table (any metadata values), every current_slot and      *)
(* every slot-hash history, the active length get_active_addresses_len     *)
(* returns is at most the number of addresses in the table, so lookup_iter *)
(* and lookup never abort on an out-of-range slice and return either       *)
(* addresses or one of the two lookup errors.                              *)
(***************************************************************************)
C27_LookupNeverAborts ==
    /\ (alt_result.op = "get_active_addresses_len" /\ alt_result.ok) =>
           alt_result.value <= Len(table.addresses)
    /\ alt_result.op = "lookup_iter" =>
           /\ alt_result.ok \/ alt_result.value = "LookupTableAccountNotFound"
           /\ LET r == lookup(table, current_slot, alt_result.indexes, slot_hashes)
              IN  r.ok \/ r.value \in {"LookupTableAccountNotFound",
                                       "InvalidLookupIndex"}

\* an empty table whose metadata says the last extension began at index 1,
\* looked up in the slot of that extension: the slice addresses[0..1] aborts
C27_Abort ==
    /\ alt_result.op = "lookup_iter"
    /\ table.addresses = <<>>
    /\ table.meta.last_extended_slot_start_index = 1
    /\ table.meta.deactivation_slot = Slot_MAX
    /\ current_slot = table.meta.last_extended_slot
    /\ ~alt_result.ok
    /\ alt_result.value = AltPanic.value

\* with a start index the table's length covers, the same lookup resolves
C27_Consistent ==
    /\ alt_result.op = "lookup_iter"
    /\ Len(table.addresses) = 2
    /\ table.meta.last_extended_slot_start_index = 1
    /\ table.meta.deactivation_slot = Slot_MAX
    /\ current_slot = table.meta.last_extended_slot
    /\ alt_result.indexes = <<0, 1>>
    /\ alt_result.ok
    /\ alt_result.value = <<AddressAt(1), NoAddress>>

(***************************************************************************)
(* C28: verify_and_hash_message returns a hash only if the transaction     *)
(* carries, for each of the first num_required_signatures static account   *)
(* keys, a signature at the same index that verifies against that key; a   *)
(* transaction with fewer signatures than num_required_signatures (none at *)
(* all included) is rejected with SignatureFailure; and                    *)
(* verify_with_results has exactly one entry per signature.                *)
(***************************************************************************)
C28_HashOnlyIfSigned ==
    LET nrs == tx.message.header.num_required_signatures
        keys == tx.message.account_keys
    IN
    /\ (tx_result.op = "verify_and_hash_message" /\ tx_result.ok) =>
           \A i \in 1..nrs :
               /\ i <= Len(keys)
               /\ i <= Len(tx.signatures)
               /\ signature_verify(tx.signatures[i], keys[i],
                                   serialize(tx.message))
    /\ (tx_result.op = "verify_and_hash_message"
        /\ Len(tx.signatures) < nrs) =>
           (~tx_result.ok /\ tx_result.value = "SignatureFailure")
    /\ tx_result.op = "verify_with_results" =>
           Len(tx_result.value) = Len(tx.signatures)

(***************************************************************************)
(* C28, amended: verify_and_hash_message returns a hash only if every      *)
(* signature the transaction carries at an index below the number of       *)
(* static account keys verifies against the static key at that index; for  *)
(* a transaction with exactly num_required_signatures signatures and at    *)
(* least as many static keys (what sanitize_signatures_inner accepts) that *)
(* is a verifying signature for each of the first num_required_signatures  *)
(* static keys. A transaction with no signature at all is not rejected: it *)
(* gets its hash. verify_with_results has one entry per signature that has *)
(* a static key at its index.                                              *)
(***************************************************************************)
C28_HashOnlyIfPairsVerify ==
    LET nrs == tx.message.header.num_required_signatures
        keys == tx.message.account_keys
        message_bytes == serialize(tx.message)
        Verifies(i) == signature_verify(tx.signatures[i], keys[i], message_bytes)
    IN
    /\ (tx_result.op = "verify_and_hash_message" /\ tx_result.ok) =>
           /\ tx_result.value = hash_raw_message(message_bytes)
           /\ \A i \in 1..Min(Len(tx.signatures), Len(keys)) : Verifies(i)
           /\ sanitize_signatures_inner(nrs, Len(keys), Len(tx.signatures)) = Ok
                  => \A i \in 1..nrs : Verifies(i)
    /\ (tx_result.op = "verify_and_hash_message" /\ tx.signatures = <<>>) =>
           tx_result.ok
    /\ tx_result.op = "verify_with_results" =>
           Len(tx_result.value) = Min(Len(tx.signatures), Len(keys))

\* two required signatures, each made by the static key of its index
C28_Witness ==
    /\ tx_result.op = "verify_and_hash_message"
    /\ tx.message.header.num_required_signatures = 2
    /\ Len(tx.message.account_keys) = 2
    /\ tx.message.account_keys[1] # tx.message.account_keys[2]
    /\ Len(tx.signatures) = 2
    /\ sanitize_signatures_inner(2, 2, 2) = Ok
    /\ tx_result.ok

\* two required signatures, the second made by the first key: no hash
C28_Rejected ==
    /\ tx_result.op = "verify_and_hash_message"
    /\ tx.message.header.num_required_signatures = 2
    /\ Len(tx.message.account_keys) = 2
    /\ tx.message.account_keys[1] # tx.message.account_keys[2]
    /\ Len(tx.signatures) = 2
    /\ tx.signatures[2] = tx.signatures[1]
    /\ ~tx_result.ok
    /\ tx_result.value = "SignatureFailure"

\* a transaction that requires one signature and carries none is hashed
C28_UnsignedAccepted ==
    /\ tx_result.op = "verify_and_hash_message"
    /\ tx.message.header.num_required_signatures = 1
    /\ Len(tx.message.account_keys) = 1
    /\ tx.signatures = <<>>
    /\ tx_result.ok
    /\ tx_result.value = hash_raw_message(serialize(tx.message))

\* more signatures than static keys: the results stop at the last key
C28_FewerResults ==
    /\ tx_result.op = "verify_with_results"
    /\ Len(tx.signatures) = 2
    /\ Len(tx.message.account_keys) = 1
    /\ Len(tx_result.value) = 1

(***************************************************************************)
(* Compiled messages handed to sanitize: Message::new, new_with_nonce      *)
(* (program/src/message_inner/legacy.rs, inline_nonce.rs)                  *)
(***************************************************************************)
MaxSanitizedCalls == 1  \* most call descriptors of a list compiled, then sanitized

RECENT_BLOCKHASHES_ID == 203

\* inline_nonce::advance_nonce_account_instruction
advance_nonce_account_instruction(nonce_pubkey, nonce_authority_pubkey) ==
    [program_id |-> SYSTEM_PROGRAM_ID,
     accounts |-> <<MetaOf(nonce_pubkey, FALSE, TRUE),
                    MetaOf(RECENT_BLOCKHASHES_ID, FALSE, FALSE),
                    MetaOf(nonce_authority_pubkey, TRUE, FALSE)>>,
     data |-> ADVANCE_NONCE_DATA]

\* instructions.insert(0, nonce_ix)
with_nonce_instruction(instrs, nonce_account_pubkey, nonce_authority_pubkey) ==
    <<advance_nonce_account_instruction(nonce_account_pubkey,
                                        nonce_authority_pubkey)>> \o instrs

\* the payers: none, an account, a program, an address no call names, the
\* system program
SanitizedPayers == Payers \cup {SYSTEM_PROGRAM_ID}

InitNewMessage ==
    /\ message = EmptyMessage
    /\ msg_result = NoResult
    /\ TxIdle
    /\ AltIdle
    /\ SysvarIdle
    /\ LoaderIdle
    /\ reserved_account_keys = [op |-> "none"]
    /\ \/ /\ call_list \in SeqUpTo(Descriptors, MaxSanitizedCalls)
          /\ payer \in SanitizedPayers
       \/ call_list \in WideLists /\ payer = 4

\* message = Message::new(&instructions, payer)
NewMessage ==
    /\ msg_result = NoResult
    /\ LET r == message_new(call_list, payer) IN
         /\ message' = IF r.ok THEN r.value ELSE message
         /\ msg_result' = [op |-> "new", ok |-> r.ok]
    /\ UNCHANGED <<tx_vars, alt_vars, sysvar_vars, compile_vars, loader_vars>>

\* message = Message::new_with_nonce(instructions, payer, nonce account,
\* nonce authority): the nonce call goes first in the caller's list
NewWithNonce ==
    /\ msg_result = NoResult
    /\ \E nonce_account_pubkey \in {1, 5}, nonce_authority_pubkey \in {4, 5} :
         LET instrs == with_nonce_instruction(call_list, nonce_account_pubkey,
                                              nonce_authority_pubkey)
             r == message_new(instrs, payer)
         IN  /\ call_list' = instrs
             /\ message' = IF r.ok THEN r.value ELSE message
             /\ msg_result' = [op |-> "new_with_nonce", ok |-> r.ok]
    /\ UNCHANGED <<tx_vars, alt_vars, sysvar_vars, loader_vars,
                   payer, reserved_account_keys>>

\* message.sanitize() of the message just compiled
SanitizeCompiled ==
    /\ msg_result.op \in {"new", "new_with_nonce"}
    /\ msg_result.ok
    /\ msg_result' = [op |-> "sanitize_compiled", by |-> msg_result.op,
                      value |-> sanitize(message)]
    /\ UNCHANGED <<message, tx_vars, alt_vars, sysvar_vars, compile_vars,
                   loader_vars>>

NextNewMessage == NewMessage \/ NewWithNonce \/ SanitizeCompiled

SpecNewMessage == InitNewMessage /\ [][NextNewMessage]_vars

\* some call compiled names the payer as its program id
PayerInvoked == \E k \in 1..Len(call_list) : call_list[k].program_id = payer

(***************************************************************************)
(* C29, as stated: every message compiled by Message::new or               *)
(* new_with_nonce with a designated fee payer passes sanitize, for every   *)
(* list of call descriptors that does not overflow the 8-bit index space,  *)
(* calls that name the payer as an account or as a program id included.    *)
(***************************************************************************)
C29_CompiledPassesSanitize ==
    (msg_result.op = "sanitize_compiled" /\ payer # NoPayer) =>
        msg_result.value = Ok

(***************************************************************************)
(* C29, amended: a message compiled by Message::new or new_with_nonce with *)
(* a designated fee payer, from a list that does not overflow the 8-bit    *)
(* index space, passes sanitize exactly when no call of the list (the      *)
(* nonce call of new_with_nonce included) names the payer as its program   *)
(* id; when one does, sanitize fails with IndexOutOfBounds. Calls that     *)
(* name the payer as an account pass.                                      *)
(***************************************************************************)
C29_PassesUnlessPayerInvoked ==
    (msg_result.op = "sanitize_compiled" /\ payer # NoPayer) =>
        msg_result.value = IF PayerInvoked THEN IndexOutOfBounds ELSE Ok

\* the payer is an account of the call, and of the nonce call before it
C29_Witness ==
    /\ msg_result.op = "sanitize_compiled"
    /\ msg_result.by = "new_with_nonce"
    /\ payer = 1
    /\ Len(call_list) = 2
    /\ call_list[1].accounts[1].pubkey = 1
    /\ call_list[2].program_id = 3
    /\ Len(call_list[2].accounts) = 1
    /\ call_list[2].accounts[1].pubkey = 1
    /\ message.account_keys[1] = 1
    /\ msg_result.value = Ok

\* the payer is the program of the call: its program_id_index is 0
C29_PayerInvoked ==
    /\ msg_result.op = "sanitize_compiled"
    /\ msg_result.by = "new"
    /\ payer = 2
    /\ Len(call_list) = 1
    /\ call_list[1].program_id = 2
    /\ message.instructions[1].program_id_index = 0
    /\ msg_result.value = IndexOutOfBounds

\* the 256-key message passes
C29_Widest ==
    /\ msg_result.op = "sanitize_compiled"
    /\ Len(message.account_keys) = U8_MAX + 1
    /\ msg_result.value = Ok

(***************************************************************************)
(* C30: reading the current-index cursor is total: given the instructions  *)
(* sysvar account with data shorter than 2 bytes (empty data included),    *)
(* load_current_index_checked and get_instruction_relative return an error *)
(* and never abort or read outside the buffer.                             *)
(***************************************************************************)
C30_CursorReadIsTotal ==
    (/\ sysvar_result.op \in {"load_current_index_checked",
                              "get_instruction_relative"}
     /\ check_id(account.key)
     /\ Len(account.data) < 2) =>
        /\ ~sysvar_result.ok
        /\ sysvar_result.value \in {"UnsupportedSysvar", "InvalidArgument",
                                    "InvalidInstructionData",
                                    "AccountBorrowFailed"}

\* the sysvar account with empty data: load_current_index_checked aborts
C30_AbortOnEmpty ==
    /\ sysvar_result.op = "load_current_index_checked"
    /\ check_id(account.key)
    /\ account.data = <<>>
    /\ ~sysvar_result.ok
    /\ sysvar_result.value = SysvarPanic.value

\* one byte of data: get_instruction_relative aborts before any decode
C30_AbortOnOneByte ==
    /\ sysvar_result.op = "get_instruction_relative"
    /\ check_id(account.key)
    /\ Len(account.data) = 1
    /\ ~sysvar_result.ok
    /\ ~sysvar_result.decoded
    /\ sysvar_result.value = SysvarPanic.value

\* with two bytes or more the cursor is read
C30_ReadsCursor ==
    /\ sysvar_result.op = "load_current_index_checked"
    /\ check_id(account.key)
    /\ BuiltFrom(account.data, sysvar_source)
    /\ sysvar_result.ok
    /\ sysvar_result.value = 1

====
